---- MODULE Spec2Model ----
(***************************************************************************)
(* django_logging: the request-scoped logging context (ContextVarManager), *)
(* the dual-mode middleware dispatch (BaseMiddleware), the request         *)
(* instrumentation (RequestLogMiddleware) and the record enrichment        *)
(* (ContextVarFilter).                                                     *)
(*                                                                         *)
(* An execution context is one worker thread (blocking mode) or one task   *)
(* on the event loop (cooperative mode).  A contextvars.ContextVar holds   *)
(* one value per execution context; the manager's registry of ContextVar   *)
(* objects and the middleware instance are shared by all of them.          *)
(***************************************************************************)
EXTENDS Integers, Sequences, FiniteSets, TLC

\* ---- bounds -------------------------------------------------------------
MaxRequests == 2
MaxHandlerOps == 2
MaxDepth == 2
MaxValue == 2
MaxChunks == 2
MaxLen == 4
MaxStoreOps == 4
MaxTokens == 3
MaxFields == 3
MaxRenderTokens == 2
MaxQueries == 3
MaxClock == 3
MaxCalls == 3
MaxSwitches == 1

Workers == {"w1", "w2"}

\* ---- keys and values ----------------------------------------------------
DJANGO_LOGGING_PREFIX == "django_logging_"

PrepareKeys == {"request_id", "ip_address", "user_agent"}
HandlerKeys == {"request_id", "custom"}
Keys == PrepareKeys \cup HandlerKeys

\* f"{self.DJANGO_LOGGING_PREFIX}{key}"
full_key(key) == <<DJANGO_LOGGING_PREFIX, key>>

\* contextvars.ContextVar(full_key, default=None): a new object each time it
\* is called.  Two objects of one name are told apart by h, their place in
\* the iteration order of a Context (which follows the objects' hashes): the
\* first object made for a name has h = 1, one made later 0 or 2.
ContextVar(name, h) == <<name[1], name[2], h>>
\* k.name
name_of(var) == <<var[1], var[2]>>
\* k.name[len(self.DJANGO_LOGGING_PREFIX):]
strip_prefix(name) == name[2]
\* k.name.startswith(self.DJANGO_LOGGING_PREFIX)
startswith_prefix(name) == name[1] = DJANGO_LOGGING_PREFIX

VarNames == {full_key(k) : k \in Keys}
\* the object the first _get_or_create(key) makes
first_var(key) == ContextVar(full_key(key), 1)
Vars == {ContextVar(n, h) : n \in VarNames, h \in 0..2}

\* the order in which call sites pass these keys as keyword arguments
KeyOrder == <<"request_id", "ip_address", "user_agent", "custom">>
\* kwargs.items() / tokens.items() of a call that passed the keys K
items_order(K) == SelectSeq(KeyOrder, LAMBDA k : k \in K)

\* A ContextVar that was never set in a context is missing from it; the
\* tombstone written by unbind/clear is the Ellipsis object.
MISSING == [type |-> "missing"]
ELLIPSIS == [type |-> "ellipsis"]
\* A bound value: "by" is the request whose execution called set, "src" says
\* who produced the data and "owner" the request the data describes.
Val(by, src, owner) == [type |-> "val", by |-> by, src |-> src, owner |-> owner]

EmptyMap == [k \in {} |-> MISSING]
\* Python values a record's context attribute can hold.
PyDict(m) == [type |-> "dict", items |-> m]
PyStr(s) == [type |-> "str", val |-> s]

\* The context every new task is copied from, and every thread starts with.
BaseContext == [v \in Vars |-> MISSING]

VARIABLES
    get_response,   \* "plain" | "coroutine": the downstream handler's kind
    cls,            \* class of the middleware instance
    async_mode,     \* BaseMiddleware.async_mode
    context_vars,   \* manager._context_vars: the ContextVars, in insertion order
    ctx,            \* ctx[w][var]: value of each ContextVar in w's context
    self_context,   \* RequestLogMiddleware.context: the request whose dict it holds
                    \* (the dict itself where _prepare_request is called alone)
    pc,             \* position of each worker in the middleware call
    req,            \* request each worker is handling (0: none yet)
    nextReq,        \* next request number
    routed,         \* path __call__ chose for the worker's current call
    handlerCalls,   \* times get_response was invoked in the current call
    handlerExc,     \* what the handler raised: "none" | "error" | "cancel"
    response,       \* what the handler returned: "none" | "plain" | "streaming"
    result,         \* how the middleware call ended
    errLogs,        \* middleware log entries about the handler's failure
    scopes,         \* open scoped_context blocks of the handler, innermost last
    ops,            \* manager/log operations handler code has made so far
    tampered,       \* the handler changed one of the keys prepare bound
    lastExit,       \* the scoped_context exit made by the last step, if any
    lastRecord,     \* the log record emitted by the last step, if any
    stream,         \* state of the wrapped streaming body
    pure,           \* one call of a pure function: its arguments and result
    store,          \* one execution context driven through the manager alone
    sw,             \* one wrapped streaming body being drained
    qs,             \* the query log and the middleware's sample of it
    mon,            \* the log size monitor, its cache and its clock
    call,           \* the manager call each worker's thread stands inside
    switches        \* thread switches inside manager calls so far

vars == <<get_response, cls, async_mode, context_vars, ctx, self_context, pc,
          req, nextReq, routed, handlerCalls, handlerExc, response, result,
          errLogs, scopes, ops, tampered, lastExit, lastRecord, stream,
          pure, store, sw, qs, mon, call, switches>>

\* ---- ContextVarManager --------------------------------------------------

\* the names that are keys of self._context_vars
names_in(registry) == {name_of(registry[i]) : i \in DOMAIN registry}

\* self._context_vars[full_key]
lookup(registry, name) ==
    registry[CHOOSE i \in DOMAIN registry : name_of(registry[i]) = name]

\* self._context_vars[full_key] = var: a new name goes last, a name that is
\* there keeps its place and gets the new object
insert(registry, var) ==
    IF name_of(var) \in names_in(registry)
    THEN [i \in DOMAIN registry |->
             IF name_of(registry[i]) = name_of(var) THEN var ELSE registry[i]]
    ELSE Append(registry, var)

\* _get_or_create for each key in turn, each run from its check to its
\* return without another thread in between: the registry afterwards
get_or_create(registry, keys) ==
    registry \o SelectSeq([i \in DOMAIN KeyOrder |-> ContextVar(full_key(KeyOrder[i]), 1)],
                          LAMBDA v : /\ strip_prefix(v) \in keys
                                     /\ name_of(v) \notin names_in(registry))

\* contextvars.Token: the var that made it and the value the var had
Token(var, old_value) == [var |-> var, old_value |-> old_value]

\* bind as it would be over one process-wide dict instead of ContextVars
bind_global(ctxs, registry, w, kv) ==
    LET vars_set == {lookup(get_or_create(registry, DOMAIN kv), full_key(k)) :
                        k \in DOMAIN kv}
    IN  [x \in DOMAIN ctxs |->
            [v \in Vars |->
                IF v \in vars_set THEN kv[strip_prefix(v)] ELSE ctxs[x][v]]]

\* bind: var.set(value) for every pair, in the caller's context only
bind(ctxs, registry, w, kv) ==
    LET vars_set == {lookup(get_or_create(registry, DOMAIN kv), full_key(k)) :
                        k \in DOMAIN kv}
    IN  [ctxs EXCEPT ![w] =
            [v \in Vars |->
                IF v \in vars_set THEN kv[strip_prefix(v)] ELSE @[v]]]

\* batch_bind whose tokens remember nothing of the value the var had
batch_bind_tokens_forgetful(ctxs, registry, w, kv) ==
    [k \in DOMAIN kv |->
        Token(lookup(get_or_create(registry, {k}), full_key(k)), MISSING)]

\* batch_bind: the tokens, each remembering the value the var had before
batch_bind_tokens(ctxs, registry, w, kv) ==
    [k \in DOMAIN kv |->
        LET var == lookup(get_or_create(registry, {k}), full_key(k))
        IN  Token(var, ctxs[w][var])]

\* unbind: tombstone the var if the manager has one of that name
unbind(ctxs, registry, w, key) ==
    IF full_key(key) \in names_in(registry)
    THEN [ctxs EXCEPT ![w][lookup(registry, full_key(key))] = ELLIPSIS]
    ELSE ctxs

Min(S) == CHOOSE x \in S : \A y \in S : x <= y

\* var.reset(token) raises ValueError for a token made by another ContextVar
\* object than the one _get_or_create returns
reset_accepts(registry, key, token) ==
    token.var = lookup(get_or_create(registry, {key}), full_key(key))

\* the keys reset() gets through: all of them, or those before the first
\* whose var.reset raises
reset_done(registry, tokens) ==
    LET order == items_order(DOMAIN tokens)
        bad == {i \in DOMAIN order :
                   ~reset_accepts(registry, order[i], tokens[order[i]])}
    IN  IF bad = {} THEN DOMAIN tokens
        ELSE {order[i] : i \in 1..(Min(bad) - 1)}

reset_raises(registry, tokens) == reset_done(registry, tokens) # DOMAIN tokens

\* reset: var.reset(token) puts back the value the token remembers
\* (removing the var from the context when it had none)
reset(ctxs, registry, w, tokens) ==
    LET done == reset_done(registry, tokens)
    IN  [ctxs EXCEPT ![w] =
            [v \in Vars |->
                IF /\ strip_prefix(v) \in done
                   /\ v = tokens[strip_prefix(v)].var
                THEN tokens[strip_prefix(v)].old_value ELSE @[v]]]

\* the loop of clear from the item after position "from" up to position
\* "to" of the registry: var.set(Ellipsis) in the caller's context
clear_range(ctxs, registry, w, from, to) ==
    LET visited == {registry[i] : i \in (from + 1)..to}
    IN  [ctxs EXCEPT ![w] =
            [v \in Vars |-> IF v \in visited THEN ELLIPSIS ELSE @[v]]]

\* clear: tombstone every var in the registry, in the caller's context
clear(ctxs, registry, w) == clear_range(ctxs, registry, w, 0, Len(registry))

\* the vars of a context that get_contextvars keeps
live(c) ==
    {v \in Vars : /\ c[v] # MISSING
                  /\ startswith_prefix(name_of(v))
                  /\ c[v] # ELLIPSIS}

\* of the vars in S named for key k, the one the iteration reaches last
last_of(S, k) ==
    CHOOSE v \in S : /\ strip_prefix(v) = k
                     /\ \A u \in S : strip_prefix(u) = k => u[3] <= v[3]

\* get_contextvars that does not leave the tombstones out
get_contextvars_with_tombstones(c) ==
    LET S == {v \in Vars : c[v] # MISSING /\ startswith_prefix(name_of(v))}
    IN  [k \in {strip_prefix(v) : v \in S} |-> c[last_of(S, k)]]

\* get_contextvars: for k in copy_context(): rv[stripped name] = ctx[k] when
\* the name has the prefix and the value is not Ellipsis
get_contextvars(c) ==
    LET kept == live(c)
    IN  [k \in {strip_prefix(v) : v \in kept} |-> c[last_of(kept, k)]]

\* merge_contexts that lets the local value win on a shared key
merge_contexts_local_wins(bound_context, local_context) ==
    [k \in DOMAIN local_context \cup DOMAIN bound_context |->
        IF k \in DOMAIN local_context THEN local_context[k] ELSE bound_context[k]]

\* merge_contexts: local_context.copy() updated with bound_context
merge_contexts(bound_context, local_context) ==
    [k \in DOMAIN local_context \cup DOMAIN bound_context |->
        IF k \in DOMAIN bound_context THEN bound_context[k] ELSE local_context[k]]

\* get_merged_context with the arguments of merge_contexts swapped
get_merged_context_swapped(c, bound_logger_context) ==
    merge_contexts(get_contextvars(c), bound_logger_context)

\* get_merged_context
get_merged_context(c, bound_logger_context) ==
    merge_contexts(bound_logger_context, get_contextvars(c))

\* ---- ContextVarFilter ---------------------------------------------------

\* filter: record.context = manager.get_merged_context(bound) or ""
filter_context(c, attached, explicit) ==
    LET bound == IF attached THEN explicit ELSE EmptyMap
        merged == get_merged_context(c, bound)
    IN  IF merged = EmptyMap THEN PyStr("") ELSE PyDict(merged)

\* filter always returns True
filter_returns == TRUE

\* A log record as it leaves the filter.  "ambient" remembers what
\* get_contextvars() was when the record was emitted.
NoRecord == [msg |-> "none"]
emit(w, r, c, msg, attached, explicit) ==
    [msg |-> msg, worker |-> w, req |-> r, attached |-> attached, explicit |-> explicit,
     ambient |-> get_contextvars(c),
     context |-> filter_context(c, attached, explicit),
     kept |-> filter_returns]

\* ---- BaseMiddleware -----------------------------------------------------

\* asgiref.sync.iscoroutinefunction(self.get_response)
iscoroutinefunction(f) == f = "coroutine"

\* __call__ that ignores the stored mode
dispatch_always_sync(mode) == "sync_call"

\* BaseMiddleware.__call__: the path chosen from the stored mode
dispatch(mode) == IF mode THEN "acall" ELSE "sync_call"

\* ---- RequestLogMiddleware -----------------------------------------------

\* the dict _prepare_request builds for request r
prepare_context(r, by) == [k \in PrepareKeys |-> Val(by, "prepare", r)]

NoExit == [set |-> FALSE]

\* ---- threads inside the manager -----------------------------------------
\* Threads of blocking mode are switched between any two bytecodes; tasks of
\* cooperative mode only at an await, and the manager has none.  What a
\* thread switch inside the manager can change is kept in call[w]:
\*   _get_or_create  the thread is between "if full_key not in" and the
\*                   assignment of the new ContextVar;
\*   clear           the thread is inside the loop over the registry;
\*   _finalize_request  a pool thread still holds the job of a task that
\*                   was cancelled while it awaited sync_to_async.
NoManagerCall == [fn |-> "none"]
Free(w) == call[w].fn = "none"
InClear(w) == call[w].fn = "clear"
ClearBegins == [fn |-> "clear", at |-> 0, failed |-> FALSE, hit |-> FALSE]

\* A switch inside a manager call counts when another thread changes the
\* registry before the call goes on; one that ends with the registry as it
\* was is the call run in one piece, and is not counted.
counted(was_hit) == IF was_hit THEN switches ELSE switches - 1

Restrict(kv, K) == [k \in K |-> kv[k]]
NoTokens == [k \in {} |-> MISSING]

\* the loop of bind / batch_bind over keys, run up to the check of keys[p]
\* (p = 0: to its end), from the contexts, registry and tokens in s
loop_upto(s, w, kv, keys, p) ==
    LET K == {keys[i] : i \in 1..(IF p = 0 THEN Len(keys) ELSE p - 1)}
    IN  [ctx |-> bind(s.ctx, s.registry, w, Restrict(kv, K)),
         registry |-> get_or_create(s.registry, K),
         tokens |-> s.tokens @@ batch_bind_tokens(s.ctx, s.registry, w, Restrict(kv, K))]

\* a thread that no middleware call has used yet, whose code around the
\* middleware has not bound its own entry so far
CanOuterBind(y) ==
    /\ pc[y] = "idle" /\ req[y] = 0
    /\ Free(y)
    /\ \A h \in 0..2 : ctx[y][ContextVar(full_key("custom"), h)] = MISSING

\* another thread is in a middleware call, can still get one, is inside the
\* manager, or can still call it from the code around the middleware
OthersRun(w) ==
    \/ nextReq <= MaxRequests
    \/ \E y \in Workers \ {w} :
           \/ pc[y] \notin {"idle", "done"}
           \/ call[y].fn = "_get_or_create"
           \/ CanOuterBind(y)

\* a thread (not a task) can be switched out inside a manager call; the
\* switch is followed where another thread has something to run
CanSwitchAt(w, budget) ==
    /\ \/ routed[w] = "sync_call"
       \/ pc[w] = "idle" /\ dispatch(async_mode) = "sync_call"
    /\ budget < MaxSwitches
    /\ OthersRun(w)
CanSwitch(w) == CanSwitchAt(w, switches)

\* where a thread can be switched out between the check and the insert with
\* an effect: at a key that is not in the registry (0: nowhere)
CutPoints(w, registry, keys, budget) ==
    {0} \cup IF CanSwitchAt(w, budget)
             THEN {i \in DOMAIN keys : full_key(keys[i]) \notin names_in(registry)}
             ELSE {}

\* a thread switched out in _get_or_create(keys[p]), with what its loop has
\* still to do
paused_at(op, kv, keys, p, tokens, before) ==
    [fn |-> "_get_or_create", op |-> op, key |-> keys[p],
     rest |-> SubSeq(keys, p + 1, Len(keys)), kv |-> kv,
     tokens |-> tokens, before |-> before]

\* When w changes the registry, a clear() loop of another thread has visited
\* J[y] of the items by then; if the dict changed size, the next step of that
\* loop raises RuntimeError.
Advances(w, registry) ==
    {J \in [Workers \ {w} -> 0..Len(context_vars)] :
        \A y \in Workers \ {w} :
            IF InClear(y)
            THEN IF registry # context_vars /\ ~call[y].failed
                 THEN J[y] >= call[y].at
                 ELSE J[y] = call[y].at
            ELSE J[y] = 0}

advance(ctxs, J, w) ==
    [y \in Workers |->
        IF y # w /\ InClear(y)
        THEN clear_range(ctxs, context_vars, y, call[y].at, J[y])[y]
        ELSE ctxs[y]]

advance_calls(calls, J, w, registry) ==
    [y \in Workers |->
        IF y # w /\ InClear(y)
        THEN [call[y] EXCEPT !.at = J[y],
                             !.failed = @ \/ Len(registry) # Len(context_vars),
                             !.hit = @ \/ registry # context_vars]
        ELSE calls[y]]

\* what follows the loop of bind / batch_bind in the operation op
Completes(w, op, s, before) ==
    /\ lastRecord' =
           IF op = "prepare"
           THEN emit(w, req[w], s.ctx[w], "REQUEST STARTED", FALSE, EmptyMap)
           ELSE NoRecord
    /\ handlerCalls' =
           IF op = "prepare" THEN [handlerCalls EXCEPT ![w] = @ + 1] ELSE handlerCalls
    /\ scopes' =
           IF op = "enter"
           THEN [scopes EXCEPT ![w] = Append(@, [tokens |-> s.tokens, before |-> before])]
           ELSE scopes
    /\ pc' = IF op = "outer" THEN pc ELSE [pc EXCEPT ![w] = "handler"]

\* the loop was cut: nothing of what follows it has happened
Cut(w) ==
    /\ lastRecord' = NoRecord
    /\ UNCHANGED <<handlerCalls, scopes, pc>>

\* bind / batch_bind of kv by w in the operation op, cut at keys[p] or not
Binds(w, op, ctxs, kv, keys, tokens, before, registry, budget, p) ==
    LET s == loop_upto([ctx |-> ctxs, registry |-> registry, tokens |-> tokens],
                       w, kv, keys, p)
    IN  \E J \in Advances(w, s.registry) :
            /\ ctx' = advance(s.ctx, J, w)
            /\ context_vars' = s.registry
            /\ call' = advance_calls(
                   [call EXCEPT ![w] =
                       IF p = 0 THEN NoManagerCall
                       ELSE paused_at(op, kv, keys, p, s.tokens, before)],
                   J, w, s.registry)
            /\ switches' = IF p = 0 THEN budget ELSE budget + 1
            /\ IF p = 0 THEN Completes(w, op, s, before) ELSE Cut(w)

\* what a new middleware call resets
NewCall(w, r) ==
    /\ req' = [req EXCEPT ![w] = r]
    /\ nextReq' = r + 1
    /\ routed' = [routed EXCEPT ![w] = dispatch(async_mode)]
    /\ handlerExc' = [handlerExc EXCEPT ![w] = "none"]
    /\ response' = [response EXCEPT ![w] = "none"]
    /\ errLogs' = [errLogs EXCEPT ![w] = 0]
    /\ scopes' = [scopes EXCEPT ![w] = <<>>]
    /\ tampered' = [tampered EXCEPT ![w] = FALSE]
    /\ lastExit' = NoExit
    /\ UNCHANGED ops
    /\ stream' = [stream EXCEPT ![w] = "none"]

\* Threads and tasks are interchangeable: the one called w1 is the one that
\* gets the first request.
CanCall(w) ==
    /\ nextReq <= MaxRequests
    /\ nextReq = 1 => w = "w1"
    /\ call[w].fn # "_get_or_create"
    /\ \/ pc[w] = "idle"
       \/ /\ pc[w] = "done"
          /\ stream[w] \in {"none", "finished", "failed", "cancelled"}

\* a base class whose cooperative path returns None instead of raising
base_call_silent(path) ==
    IF path = "acall" THEN "response" ELSE "NotImplementedError"

\* BaseMiddleware.__sync_call__ / __acall__: raise NotImplementedError
base_call(path) == "NotImplementedError"

\* calling a BaseMiddleware instance: the selected path is not implemented
BaseCall(w) ==
    /\ CanCall(w)
    /\ cls = "BaseMiddleware"
    /\ NewCall(w, nextReq)
    /\ ctx' = IF async_mode THEN [ctx EXCEPT ![w] = BaseContext] ELSE ctx
    /\ handlerCalls' = [handlerCalls EXCEPT ![w] = 0]
    /\ result' = [result EXCEPT ![w] = base_call(dispatch(async_mode))]
    /\ pc' = [pc EXCEPT ![w] = "done"]
    /\ lastRecord' = NoRecord
    /\ UNCHANGED <<pure, store, sw, qs, mon, get_response, cls, async_mode,
                   context_vars, self_context, call, switches>>

\* __sync_call__ up to the assignment of self.context in _prepare_request;
\* another thread can run before this one reads self.context back.
SyncCallStart(w) ==
    /\ CanCall(w)
    /\ cls = "RequestLogMiddleware"
    /\ dispatch(async_mode) = "sync_call"
    /\ NewCall(w, nextReq)
    /\ self_context' = nextReq
    /\ handlerCalls' = [handlerCalls EXCEPT ![w] = 0]
    /\ result' = [result EXCEPT ![w] = "none"]
    /\ pc' = [pc EXCEPT ![w] = "assigned"]
    /\ lastRecord' = NoRecord
    /\ UNCHANGED <<pure, store, sw, qs, mon, get_response, cls, async_mode,
                   context_vars, ctx, call, switches>>

\* the rest of _prepare_request (manager.bind(**self.context), REQUEST
\* STARTED) and the call of get_response; the thread can be switched out
\* inside bind, at the _get_or_create of a key no thread has created yet
SyncPrepareBind(w, p) ==
    /\ pc[w] = "assigned"
    /\ Free(w)
    /\ p \in CutPoints(w, context_vars, items_order(PrepareKeys), switches)
    /\ Binds(w, "prepare", ctx, prepare_context(self_context, req[w]),
             items_order(PrepareKeys), NoTokens, EmptyMap, context_vars,
             switches, p)
    /\ UNCHANGED <<pure, store, sw, qs, mon, get_response, cls, async_mode, self_context, req, nextReq,
                   routed, handlerExc, response, result, errLogs, ops,
                   tampered, stream>>
    /\ lastExit' = NoExit

\* A thread switched out in _get_or_create runs again: it assigns its new
\* ContextVar (over the one another thread has put there meanwhile, if any),
\* sets it, and goes on with the loop and what follows it.  h places a
\* second object of the name before or after the first in iteration order.
Resume(w, h, p) ==
    /\ call[w].fn = "_get_or_create"
    /\ LET c == call[w]
           name == full_key(c.key)
           var == ContextVar(name, h)
           registry == insert(context_vars, var)
           set == [ctx EXCEPT ![w][var] = c.kv[c.key]]
           tokens == c.tokens @@ [k \in {c.key} |-> Token(var, ctx[w][var])]
           budget == counted(name \in names_in(context_vars))
       IN  /\ h = 1 <=> name \notin names_in(context_vars)
           /\ p \in CutPoints(w, registry, c.rest, budget)
           /\ Binds(w, c.op, set, c.kv, c.rest, tokens, c.before, registry,
                    budget, p)
    /\ UNCHANGED <<pure, store, sw, qs, mon, get_response, cls, async_mode, self_context, req, nextReq,
                   routed, handlerExc, response, result, errLogs, ops,
                   tampered, stream>>
    /\ lastExit' = NoExit

\* __acall__ up to the await of get_response: a new task starts from a copy
\* of the loop's context, and no other task runs in between on the event
\* loop (a pool thread in _finalize_request does).
ACallStart(w) ==
    /\ CanCall(w)
    /\ cls = "RequestLogMiddleware"
    /\ dispatch(async_mode) = "acall"
    /\ NewCall(w, nextReq)
    /\ self_context' = nextReq
    /\ LET kv == prepare_context(nextReq, nextReq)
           s == loop_upto([ctx |-> [ctx EXCEPT ![w] = BaseContext],
                           registry |-> context_vars, tokens |-> NoTokens],
                          w, kv, items_order(PrepareKeys), 0)
       IN  \E J \in Advances(w, s.registry) :
               /\ ctx' = advance(s.ctx, J, w)
               /\ context_vars' = s.registry
               /\ call' = advance_calls([call EXCEPT ![w] = NoManagerCall],
                                        J, w, s.registry)
               /\ lastRecord' =
                      emit(w, nextReq, s.ctx[w], "REQUEST STARTED", FALSE, EmptyMap)
    /\ handlerCalls' = [handlerCalls EXCEPT ![w] = 1]
    /\ result' = [result EXCEPT ![w] = "none"]
    /\ pc' = [pc EXCEPT ![w] = "handler"]
    /\ UNCHANGED <<pure, store, sw, qs, mon, get_response, cls, async_mode, switches>>

\* ---- the downstream handler ---------------------------------------------
\* Handler code runs in the worker's execution context and may call the
\* manager and the logger any number of times before it returns or raises.

InHandler(w) == pc[w] = "handler" /\ Free(w) /\ ops < MaxHandlerOps

HandlerFrame ==
    UNCHANGED <<pure, store, sw, qs, mon, get_response, cls, async_mode, self_context, req,
                nextReq, routed, response, result, errLogs, stream>>

handler_value(w) == Val(req[w], "handler", req[w])

\* manager.bind(key=value) in handler code
HBind(w, k, p) ==
    /\ InHandler(w)
    /\ p \in CutPoints(w, context_vars, <<k>>, switches)
    /\ Binds(w, "bind", ctx, [x \in {k} |-> handler_value(w)], <<k>>,
             NoTokens, EmptyMap, context_vars, switches, p)
    /\ ops' = ops + 1
    /\ tampered' = [tampered EXCEPT ![w] = @ \/ k \in PrepareKeys]
    /\ lastExit' = NoExit
    /\ UNCHANGED handlerExc
    /\ HandlerFrame

\* manager.unbind(key) in handler code
HUnbind(w, k) ==
    /\ InHandler(w)
    /\ ctx' = unbind(ctx, context_vars, w, k)
    /\ ops' = ops + 1
    /\ tampered' = [tampered EXCEPT ![w] = @ \/ k \in PrepareKeys]
    /\ UNCHANGED <<context_vars, scopes, call, switches, pc, handlerExc, handlerCalls>>
    /\ lastExit' = NoExit
    /\ lastRecord' = NoRecord
    /\ HandlerFrame

\* manager.clear() in handler code: a task runs the whole loop; a thread
\* enters the loop and can be switched out inside it
HClear(w, cut) ==
    /\ InHandler(w)
    /\ IF cut
       THEN /\ CanSwitch(w)
            /\ call' = [call EXCEPT ![w] = ClearBegins]
            /\ switches' = switches + 1
            /\ UNCHANGED ctx
       ELSE /\ ctx' = clear(ctx, context_vars, w)
            /\ UNCHANGED <<call, switches>>
    /\ ops' = ops + 1
    /\ tampered' = [tampered EXCEPT ![w] = TRUE]
    /\ UNCHANGED <<context_vars, scopes, pc, handlerExc, handlerCalls>>
    /\ lastExit' = NoExit
    /\ lastRecord' = NoRecord
    /\ HandlerFrame

\* the loop of manager.clear() in handler code ends: with the last item, or
\* with RuntimeError (dictionary changed size during iteration)
HClearEnd(w) ==
    /\ pc[w] = "handler"
    /\ InClear(w)
    /\ IF call[w].failed
       THEN /\ pc' = [pc EXCEPT ![w] = "raising"]
            /\ handlerExc' = [handlerExc EXCEPT ![w] = "RuntimeError"]
            /\ UNCHANGED ctx
       ELSE /\ ctx' = clear_range(ctx, context_vars, w, call[w].at, Len(context_vars))
            /\ UNCHANGED <<pc, handlerExc>>
    /\ call' = [call EXCEPT ![w] = NoManagerCall]
    /\ switches' = counted(call[w].hit)
    /\ UNCHANGED <<context_vars, scopes, ops, tampered, handlerCalls>>
    /\ lastExit' = NoExit
    /\ lastRecord' = NoRecord
    /\ HandlerFrame

\* entering "with manager.scoped_context(**kwargs)": batch_bind, then the body
HScopeEnter(w, K, p) ==
    /\ InHandler(w)
    /\ Len(scopes[w]) < MaxDepth
    /\ p \in CutPoints(w, context_vars, items_order(K), switches)
    /\ Binds(w, "enter", ctx, [k \in K |-> handler_value(w)], items_order(K),
             NoTokens, get_contextvars(ctx[w]), context_vars, switches, p)
    /\ ops' = ops + 1
    /\ tampered' = [tampered EXCEPT ![w] = @ \/ K \cap PrepareKeys # {}]
    /\ lastExit' = NoExit
    /\ UNCHANGED handlerExc
    /\ HandlerFrame

\* leaving the innermost scoped_context block: the finally clause runs
\* reset(tokens), on a normal exit and while an exception unwinds; a
\* ValueError of var.reset leaves the block in place of either
HScopeExit(w) ==
    /\ pc[w] \in {"handler", "raising"}
    /\ Free(w)
    /\ scopes[w] # <<>>
    /\ LET top == scopes[w][Len(scopes[w])]
           after == reset(ctx, context_vars, w, top.tokens)
           raises == reset_raises(context_vars, top.tokens)
       IN  /\ ctx' = after
           /\ context_vars' = get_or_create(context_vars, DOMAIN top.tokens)
           /\ lastExit' =
                  [set |-> TRUE, worker |-> w, keys |-> DOMAIN top.tokens,
                   before |-> top.before,
                   inside |-> get_contextvars(ctx[w]),
                   after |-> get_contextvars(after[w]),
                   raised |-> pc[w] = "raising",
                   failed |-> raises]
           /\ pc' = IF raises THEN [pc EXCEPT ![w] = "raising"] ELSE pc
           /\ handlerExc' =
                  IF raises THEN [handlerExc EXCEPT ![w] = "ValueError"] ELSE handlerExc
    /\ scopes' = [scopes EXCEPT ![w] = SubSeq(@, 1, Len(@) - 1)]
    /\ UNCHANGED <<ops, tampered, call, switches, handlerCalls>>
    /\ lastRecord' = NoRecord
    /\ HandlerFrame

\* what a call site attaches to a record: nothing, extra={"context": {}} or
\* extra={"context": {"request_id": ...}}
Attachments(w) ==
    { [attached |-> FALSE, explicit |-> EmptyMap],
      [attached |-> TRUE, explicit |-> EmptyMap],
      [attached |-> TRUE,
       explicit |-> [k \in {"request_id"} |-> Val(req[w], "explicit", req[w])]] }

\* a log call in handler code
HLog(w, a) ==
    /\ InHandler(w)
    /\ lastRecord' =
           emit(w, req[w], ctx[w], "handler", a.attached, a.explicit)
    /\ ops' = ops + 1
    /\ UNCHANGED <<context_vars, ctx, scopes, tampered, call, switches, pc, handlerExc,
                   handlerCalls>>
    /\ lastExit' = NoExit
    /\ HandlerFrame

\* the handler returns a response object
HReturn(w, kind) ==
    /\ pc[w] = "handler"
    /\ Free(w)
    /\ scopes[w] = <<>>
    /\ response' = [response EXCEPT ![w] = kind]
    /\ pc' = [pc EXCEPT ![w] = "returned"]
    /\ UNCHANGED <<pure, store, sw, qs, mon, get_response, cls, async_mode, context_vars, ctx,
                   self_context, req, nextReq, routed, handlerCalls, handlerExc,
                   result, errLogs, scopes, ops, tampered, stream, call, switches>>
    /\ lastExit' = NoExit
    /\ lastRecord' = NoRecord

\* the handler raises an error, or (a coroutine, at an await) is cancelled
HRaise(w, exc) ==
    /\ pc[w] = "handler"
    /\ Free(w)
    /\ exc = "cancel" => routed[w] = "acall"
    /\ handlerExc' = [handlerExc EXCEPT ![w] = exc]
    /\ pc' = [pc EXCEPT ![w] = "raising"]
    /\ UNCHANGED <<pure, store, sw, qs, mon, get_response, cls, async_mode, context_vars, ctx,
                   self_context, req, nextReq, routed, handlerCalls, response,
                   result, errLogs, scopes, ops, tampered, stream, call, switches>>
    /\ lastExit' = NoExit
    /\ lastRecord' = NoRecord

\* ---- RequestLogMiddleware after the handler -----------------------------

\* __sync_call__ has no try around get_response: whatever it raises leaves
\* the middleware as it is
sync_outcome(exc) == exc
sync_logs_failure(exc) == FALSE

\* __acall__ with the raise after the warning forgotten
acall_outcome_swallow(exc) == IF exc = "cancel" THEN "response" ELSE exc
\* __acall__: except asyncio.CancelledError: logger.warning(...); raise
acall_outcome(exc) == exc
acall_logs_failure(exc) == exc = "cancel"

SyncHandlerRaised(w) ==
    /\ pc[w] = "raising"
    /\ scopes[w] = <<>>
    /\ routed[w] = "sync_call"
    /\ result' = [result EXCEPT ![w] = sync_outcome(handlerExc[w])]
    /\ errLogs' = [errLogs EXCEPT ![w] =
           IF sync_logs_failure(handlerExc[w]) THEN @ + 1 ELSE @]
    /\ pc' = [pc EXCEPT ![w] = "done"]
    /\ UNCHANGED <<pure, store, sw, qs, mon, get_response, cls, async_mode, context_vars, ctx,
                   self_context, req, nextReq, routed, handlerCalls, handlerExc,
                   response, scopes, ops, tampered, stream, call, switches>>
    /\ lastExit' = NoExit
    /\ lastRecord' = NoRecord

AsyncHandlerRaised(w) ==
    /\ pc[w] = "raising"
    /\ scopes[w] = <<>>
    /\ routed[w] = "acall"
    /\ result' = [result EXCEPT ![w] = acall_outcome(handlerExc[w])]
    /\ errLogs' = [errLogs EXCEPT ![w] =
           IF acall_logs_failure(handlerExc[w]) THEN @ + 1 ELSE @]
    /\ lastRecord' =
           IF acall_logs_failure(handlerExc[w])
           THEN emit(w, req[w], ctx[w], "Request was cancelled", FALSE, EmptyMap)
           ELSE NoRecord
    /\ pc' = [pc EXCEPT ![w] = "done"]
    /\ UNCHANGED <<pure, store, sw, qs, mon, get_response, cls, async_mode, context_vars, ctx,
                   self_context, req, nextReq, routed, handlerCalls, handlerExc,
                   response, scopes, ops, tampered, stream, call, switches>>
    /\ lastExit' = NoExit

\* a wrapper that drains the source when it is built
wrap_streaming_eager(kind) == IF kind = "streaming" THEN "finished" ELSE "none"

\* response.streaming_content = self._sync_streaming_wrapper(...): calling the
\* generator function builds the generator and runs none of its body
wrap_streaming(kind) == IF kind = "streaming" THEN "wrapped" ELSE "none"

AfterHandlerFrame ==
    UNCHANGED <<pure, store, sw, qs, mon, get_response, cls, async_mode, context_vars,
                self_context, req, nextReq, routed, handlerCalls, handlerExc,
                response, errLogs, scopes, ops, tampered>>

\* isinstance(response, StreamingHttpResponse): wrap the body; then
\* __sync_call__ runs _finalize_request (REQUEST FINISHED, manager.clear())
\* and returns the response, unless its thread is switched out inside the
\* loop of clear; __acall__ hands _finalize_request to a pool thread through
\* sync_to_async and awaits it.
Finalize(w, cut) ==
    /\ pc[w] = "returned"
    /\ cut => CanSwitch(w)
    /\ stream' = [stream EXCEPT ![w] = wrap_streaming(response[w])]
    /\ IF routed[w] = "acall"
       THEN /\ lastRecord' = NoRecord
            /\ pc' = [pc EXCEPT ![w] = "submitted"]
            /\ UNCHANGED <<ctx, result, call, switches>>
       ELSE /\ lastRecord' =
                   emit(w, req[w], ctx[w], "REQUEST FINISHED", FALSE, EmptyMap)
            /\ IF cut
               THEN /\ pc' = [pc EXCEPT ![w] = "clearing"]
                    /\ call' = [call EXCEPT ![w] = ClearBegins]
                    /\ switches' = switches + 1
                    /\ UNCHANGED <<ctx, result>>
               ELSE /\ ctx' = clear(ctx, context_vars, w)
                    /\ result' = [result EXCEPT ![w] = "response"]
                    /\ pc' = [pc EXCEPT ![w] = "done"]
                    /\ UNCHANGED <<call, switches>>
    /\ AfterHandlerFrame
    /\ lastExit' = NoExit

\* the pool thread runs _finalize_request (REQUEST FINISHED, manager.clear())
\* in a copy of the task's context, which sync_to_async copies back when
\* the await ends; tasks can run while the thread is in the loop of clear
PoolRun(w, cut) ==
    /\ pc[w] = "submitted"
    /\ lastRecord' =
           emit(w, req[w], ctx[w], "REQUEST FINISHED", FALSE, EmptyMap)
    /\ IF cut
       THEN /\ switches < MaxSwitches
            /\ OthersRun(w)
            /\ pc' = [pc EXCEPT ![w] = "clearing"]
            /\ call' = [call EXCEPT ![w] = ClearBegins]
            /\ switches' = switches + 1
            /\ UNCHANGED ctx
       ELSE /\ ctx' = clear(ctx, context_vars, w)
            /\ pc' = [pc EXCEPT ![w] = "ran"]
            /\ UNCHANGED <<call, switches>>
    /\ UNCHANGED <<result, stream>>
    /\ AfterHandlerFrame
    /\ lastExit' = NoExit

\* _finalize_request ends, with the last item of the loop of clear or with
\* RuntimeError (dictionary changed size during iteration): the middleware
\* returns the response, or the error leaves the middleware call
FinalizeReturn(w) ==
    /\ pc[w] \in {"clearing", "ran"}
    /\ IF InClear(w) /\ call[w].failed
       THEN /\ result' = [result EXCEPT ![w] = "RuntimeError"]
            /\ stream' = [stream EXCEPT ![w] = "none"]
            /\ UNCHANGED ctx
       ELSE /\ result' = [result EXCEPT ![w] = "response"]
            /\ ctx' = IF InClear(w)
                      THEN clear_range(ctx, context_vars, w, call[w].at, Len(context_vars))
                      ELSE ctx
            /\ UNCHANGED stream
    /\ call' = [call EXCEPT ![w] = NoManagerCall]
    /\ switches' = IF InClear(w) THEN counted(call[w].hit) ELSE switches
    /\ pc' = [pc EXCEPT ![w] = "done"]
    /\ lastRecord' = NoRecord
    /\ AfterHandlerFrame
    /\ lastExit' = NoExit

\* the task is cancelled while it awaits sync_to_async: CancelledError
\* leaves __acall__ (the await is outside its try), and the context gets
\* what the pool thread has done to its copy so far (the items up to j
\* tombstoned); a job the pool thread has not started can still run
AFinalizeCancel(w, j) ==
    /\ routed[w] = "acall"
    /\ pc[w] \in {"submitted", "clearing", "ran"}
    /\ IF InClear(w)
       THEN /\ j >= call[w].at
            /\ j <= IF call[w].failed THEN call[w].at ELSE Len(context_vars)
            /\ ctx' = clear_range(ctx, context_vars, w, call[w].at, j)
            /\ call' = [call EXCEPT ![w] = NoManagerCall]
       ELSE /\ j = 0
            /\ call' = [call EXCEPT ![w] =
                   IF pc[w] = "submitted" THEN [fn |-> "_finalize_request"]
                   ELSE NoManagerCall]
            /\ UNCHANGED ctx
    /\ switches' = IF InClear(w) THEN counted(call[w].hit) ELSE switches
    /\ result' = [result EXCEPT ![w] = "cancel"]
    /\ stream' = [stream EXCEPT ![w] = "none"]
    /\ pc' = [pc EXCEPT ![w] = "done"]
    /\ lastRecord' = NoRecord
    /\ AfterHandlerFrame
    /\ lastExit' = NoExit

\* the pool thread runs the job of a task that was cancelled meanwhile
PoolRunDetached(w) ==
    /\ pc[w] = "done"
    /\ call[w].fn = "_finalize_request"
    /\ lastRecord' =
           emit(w, req[w], ctx[w], "REQUEST FINISHED", FALSE, EmptyMap)
    /\ call' = [call EXCEPT ![w] = NoManagerCall]
    /\ UNCHANGED <<ctx, result, stream, pc, switches>>
    /\ AfterHandlerFrame
    /\ lastExit' = NoExit

\* ---- the wrapped streaming body -----------------------------------------
\* The server drains the body after the middleware call has returned, in the
\* same thread or task.

StreamFrame ==
    UNCHANGED <<pure, store, sw, qs, mon, get_response, cls, async_mode, context_vars, ctx,
                self_context, pc, req, nextReq, routed, handlerCalls,
                handlerExc, response, result, errLogs, scopes, ops, tampered, call, switches>>

StreamLog(w, msg) ==
    /\ lastRecord' = emit(w, req[w], ctx[w], msg, FALSE, EmptyMap)
    /\ lastExit' = NoExit

\* first next() on the wrapper
StreamStart(w) ==
    /\ pc[w] = "done" /\ stream[w] = "wrapped"
    /\ StreamLog(w, "Streaming started")
    /\ stream' = [stream EXCEPT ![w] = "started"]
    /\ StreamFrame

\* the source is exhausted
StreamFinish(w) ==
    /\ pc[w] = "done" /\ stream[w] = "started"
    /\ StreamLog(w, "Streaming finished")
    /\ stream' = [stream EXCEPT ![w] = "finished"]
    /\ StreamFrame

\* the source raises: except Exception
StreamFail(w) ==
    /\ pc[w] = "done" /\ stream[w] = "started"
    /\ StreamLog(w, "Streaming failed")
    /\ stream' = [stream EXCEPT ![w] = "failed"]
    /\ StreamFrame

\* the draining task is cancelled: except asyncio.CancelledError
StreamCancel(w) ==
    /\ pc[w] = "done" /\ stream[w] = "started"
    /\ routed[w] = "acall"
    /\ StreamLog(w, "Streaming was cancelled")
    /\ stream' = [stream EXCEPT ![w] = "cancelled"]
    /\ StreamFrame

\* ---- specification ------------------------------------------------------

\* what the variables of the other specifications hold while unused
NoCall == [fn |-> "none"]
NoStore == [op |-> "none"]
NoStream == [kind |-> "none"]
NoQueries == [log_sql |-> FALSE]
NoMonitor == [mode |-> "none"]

\* the middleware instance and its workers after construction
MiddlewareInit ==
    /\ get_response \in {"plain", "coroutine"}
    /\ cls \in {"BaseMiddleware", "RequestLogMiddleware"}
    /\ async_mode = iscoroutinefunction(get_response)
    /\ context_vars = <<>>
    /\ ctx = [w \in Workers |-> BaseContext]
    /\ call = [w \in Workers |-> NoManagerCall]
    /\ switches = 0
    /\ self_context = 0
    /\ pc = [w \in Workers |-> "idle"]
    /\ req = [w \in Workers |-> 0]
    /\ nextReq = 1
    /\ routed = [w \in Workers |-> "none"]
    /\ handlerCalls = [w \in Workers |-> 0]
    /\ handlerExc = [w \in Workers |-> "none"]
    /\ response = [w \in Workers |-> "none"]
    /\ result = [w \in Workers |-> "none"]
    /\ errLogs = [w \in Workers |-> 0]
    /\ scopes = [w \in Workers |-> <<>>]
    /\ ops = 0
    /\ tampered = [w \in Workers |-> FALSE]
    /\ lastExit = NoExit
    /\ lastRecord = NoRecord
    /\ stream = [w \in Workers |-> "none"]

Init ==
    /\ MiddlewareInit
    /\ pure = NoCall
    /\ store = NoStore
    /\ sw = NoStream
    /\ qs = NoQueries
    /\ mon = NoMonitor

\* one request middleware over a plain handler, no request received
Idle == MiddlewareInit /\ get_response = "plain" /\ cls = "RequestLogMiddleware"

ScopeKeySets == {{"request_id"}, {"custom"}}

Next ==
    \E w \in Workers :
        \/ BaseCall(w)
        \/ SyncCallStart(w)
        \/ \E p \in 0..Len(KeyOrder) : SyncPrepareBind(w, p)
        \/ \E h \in 0..2, p \in 0..Len(KeyOrder) : Resume(w, h, p)
        \/ ACallStart(w)
        \/ \E k \in HandlerKeys, p \in 0..1 : HBind(w, k, p)
        \/ \E k \in HandlerKeys : HUnbind(w, k)
        \/ \E cut \in BOOLEAN : HClear(w, cut)
        \/ HClearEnd(w)
        \/ \E K \in ScopeKeySets, p \in 0..1 : HScopeEnter(w, K, p)
        \/ HScopeExit(w)
        \/ \E a \in Attachments(w) : HLog(w, a)
        \/ \E kind \in {"plain", "streaming"} : HReturn(w, kind)
        \/ \E exc \in {"error", "cancel"} : HRaise(w, exc)
        \/ SyncHandlerRaised(w)
        \/ AsyncHandlerRaised(w)
        \/ \E cut \in BOOLEAN : Finalize(w, cut)
        \/ \E cut \in BOOLEAN : PoolRun(w, cut)
        \/ FinalizeReturn(w)
        \/ \E j \in 0..Len(KeyOrder) : AFinalizeCancel(w, j)
        \/ PoolRunDetached(w)
        \/ StreamStart(w)
        \/ StreamFinish(w)
        \/ StreamFail(w)
        \/ StreamCancel(w)

Spec == Init /\ [][Next]_vars

\* ---- properties ---------------------------------------------------------

InFlight(w) ==
    \/ pc[w] \in {"assigned", "handler", "raising", "returned", "submitted", "clearing", "ran"}
    \/ pc[w] = "done" /\ stream[w] \in {"wrapped", "started"}

Visible(w) == get_contextvars(ctx[w])

\* C1: while two requests are in flight on two execution contexts, no entry
\* bound by the execution of one is in get_contextvars() of the other.
C1_Isolation ==
    \A a \in Workers : \A b \in Workers \ {a} :
        (InFlight(a) /\ InFlight(b)) =>
            \A k \in DOMAIN Visible(b) : Visible(b)[k].by # req[a]

\* two requests in flight, each seeing its own entries, one with a key its
\* handler bound
C1_Witness ==
    \E a \in Workers : \E b \in Workers \ {a} :
        /\ pc[a] = "handler" /\ pc[b] = "handler"
        /\ "custom" \in DOMAIN Visible(a)
        /\ "custom" \notin DOMAIN Visible(b)
        /\ "request_id" \in DOMAIN Visible(b)

SameEntry(m1, m2, k) ==
    /\ (k \in DOMAIN m1) = (k \in DOMAIN m2)
    /\ k \in DOMAIN m1 => m1[k] = m2[k]

\* C2: get_contextvars() after a scoped_context block exits equals
\* get_contextvars() before it was entered.  Stated here on the part of the
\* snapshot the block owns, which the claim implies: every key passed to
\* scoped_context has the entry (or the absence) it had before the block
\* was entered, and every other key has what the body left.  reset() raises
\* ValueError on a token made by a ContextVar object that lost the registry
\* slot to another thread's _get_or_create, and the key stays bound.
C2_ScopedKeysRestored ==
    lastExit.set =>
        /\ \A k \in lastExit.keys : SameEntry(lastExit.after, lastExit.before, k)
        /\ \A k \in Keys \ lastExit.keys :
               SameEntry(lastExit.after, lastExit.inside, k)

\* C3: once a middleware call has ended because the handler raised or was
\* cancelled, none of request_id, ip_address, user_agent is in
\* get_contextvars() of that execution context.
C3_ClearedOnFailure ==
    \A w \in Workers :
        (pc[w] = "done" /\ result[w] \in {"error", "cancel"}) =>
            \A k \in PrepareKeys : k \notin DOMAIN Visible(w)

\* C4: after a blocking-mode call whose handler returned a response,
\* get_contextvars() of that worker thread is empty (and stays so until the
\* next request's prepare binds).
C4_NoResidualEntries ==
    \A w \in Workers :
        (routed[w] = "sync_call" /\ pc[w] = "done" /\ result[w] = "response") =>
            Visible(w) = EmptyMap

\* C5: every record emitted for a request (whose handler did not itself
\* rebind or remove the entries) carries that request's request_id,
\* ip_address and user_agent in its context.
C5_EveryRecordEnriched ==
    (lastRecord.msg # "none" /\ ~tampered[lastRecord.worker]) =>
        /\ lastRecord.context.type = "dict"
        /\ \A k \in PrepareKeys \ DOMAIN lastRecord.explicit :
               /\ k \in DOMAIN lastRecord.context.items
               /\ lastRecord.context.items[k]
                      = Val(lastRecord.req, "prepare", lastRecord.req)

\* C6: the handler is invoked exactly once per call of RequestLogMiddleware,
\* and what it raises is what the call raises.
C6_OnceAndPropagated ==
    cls = "RequestLogMiddleware" =>
        \A w \in Workers :
            /\ pc[w] \in {"handler", "raising", "returned", "submitted",
                         "clearing", "ran", "done"}
                   => handlerCalls[w] = 1
            /\ pc[w] \in {"idle", "assigned"} => handlerCalls[w] = 0
            /\ (pc[w] = "done" /\ handlerExc[w] # "none")
                   => result[w] = handlerExc[w]

\* a cancelled cooperative call that ended by raising the cancellation
C6_Witness ==
    \E w \in Workers :
        /\ pc[w] = "done" /\ handlerExc[w] = "cancel" /\ result[w] = "cancel"
        /\ handlerCalls[w] = 1

\* C7: every error or cancellation raised by the handler gets exactly one
\* log entry from the middleware before it propagates, in both modes.
\* __sync_call__ has no try around get_response and __acall__ catches only
\* asyncio.CancelledError, so any other handler error leaves unlogged.
C7_EveryFailureLogged ==
    \A w \in Workers :
        (pc[w] = "done" /\ handlerExc[w] # "none") => errLogs[w] = 1

\* C8: the mode is the one computed from get_response at construction, it
\* never changes, and every call is routed by it.
C8_ModeFixed ==
    /\ [](/\ async_mode = iscoroutinefunction(get_response)
          /\ \A w \in Workers :
                 routed[w] # "none" =>
                     routed[w] = IF iscoroutinefunction(get_response)
                                 THEN "acall" ELSE "sync_call")
    /\ [][async_mode' = async_mode /\ get_response' = get_response]_vars

\* a worker's second call, routed to the cooperative path
C8_Witness ==
    \E w \in Workers :
        /\ req[w] > 1 /\ routed[w] = "acall" /\ pc[w] = "handler"
        /\ \E o \in Workers \ {w} : req[o] = 0

\* C9: calling a middleware whose class has not implemented the selected
\* path raises NotImplementedError and never reaches the handler.
C9_NotImplemented ==
    cls = "BaseMiddleware" =>
        \A w \in Workers :
            /\ pc[w] \in {"idle", "done"}
            /\ handlerCalls[w] = 0
            /\ pc[w] = "done" => result[w] = "NotImplementedError"

\* a cooperative-mode BaseMiddleware that was called
C9_Witness ==
    /\ cls = "BaseMiddleware" /\ async_mode
    /\ \E w \in Workers : pc[w] = "done" /\ result[w] = "NotImplementedError"

Attached(r) == IF r.attached THEN r.explicit ELSE EmptyMap

\* C10 as stated: the filter keeps the record and record.context is the
\* mapping merge_contexts(explicit, get_contextvars()), empty or not.
C10_ContextIsMergedMapping ==
    lastRecord.msg # "none" =>
        /\ lastRecord.kept
        /\ lastRecord.context
               = PyDict(merge_contexts(Attached(lastRecord), lastRecord.ambient))

\* C10 amended: the filter keeps the record; record.context is
\* merge_contexts(explicit, get_contextvars()) when that mapping is not
\* empty, and the empty string when it is.
C10_ContextIsMergedOrEmptyString ==
    lastRecord.msg # "none" =>
        LET merged == merge_contexts(Attached(lastRecord), lastRecord.ambient)
        IN  /\ lastRecord.kept
            /\ lastRecord.context =
                   IF merged = EmptyMap THEN PyStr("") ELSE PyDict(merged)

\* a record whose attached context overrides an entry of the store
C10_Witness ==
    /\ lastRecord.msg = "handler"
    /\ lastRecord.attached
    /\ \E k \in DOMAIN lastRecord.explicit :
           /\ k \in DOMAIN lastRecord.ambient
           /\ lastRecord.ambient[k] # lastRecord.explicit[k]
    /\ \E k \in DOMAIN lastRecord.ambient : k \notin DOMAIN lastRecord.explicit

\* the messages of the streaming wrappers
StreamingMessages ==
    {"Streaming started", "Streaming finished", "Streaming failed",
     "Streaming was cancelled"}

\* C24: in both modes REQUEST STARTED is logged before the handler starts and
\* REQUEST FINISHED after the handler produced its response and before the
\* middleware returns it, without waiting for a streaming body: the entries
\* of the streaming wrapper come after REQUEST FINISHED.
C24_BoundaryEntriesOrdered ==
    [][\A w \in Workers :
          \* the step that starts the handler is the one that logs STARTED
          /\ (pc[w] # "handler" /\ pc'[w] = "handler") <=>
                 /\ lastRecord'.msg = "REQUEST STARTED"
                 /\ lastRecord'.worker = w
          \* FINISHED is logged with the response in hand and not returned
          /\ (lastRecord'.msg = "REQUEST FINISHED" /\ lastRecord'.worker = w) =>
                 /\ response[w] # "none"
                 /\ result[w] # "response"
                 /\ lastRecord'.req = req[w]
          \* the response is returned by the step that logs FINISHED or by
          \* a later one, and the body has not been pulled
          /\ (result[w] # "response" /\ result'[w] = "response") =>
                 /\ \/ lastRecord'.msg = "REQUEST FINISHED" /\ lastRecord'.worker = w
                    \/ pc[w] \in {"clearing", "ran"}
                 /\ stream'[w] = IF response[w] = "streaming" THEN "wrapped" ELSE "none"
          /\ (pc[w] \notin {"clearing", "ran"} /\ pc'[w] \in {"clearing", "ran"}) =>
                 /\ lastRecord'.msg = "REQUEST FINISHED"
                 /\ lastRecord'.worker = w
          \* the wrapper logs only after the middleware returned
          /\ (lastRecord'.msg \in StreamingMessages /\ lastRecord'.worker = w) =>
                 /\ result[w] = "response" /\ pc[w] = "done"
                 /\ response[w] = "streaming"
      ]_vars

C24_Witness ==
    \E w \in Workers :
        /\ response[w] = "streaming" /\ result[w] = "response"
        /\ lastRecord.msg = "Streaming finished" /\ lastRecord.worker = w

\* ==== pure functions ======================================================

mainVars == <<get_response, cls, async_mode, context_vars, ctx, self_context, pc,
              req, nextReq, routed, handlerCalls, handlerExc, response, result,
              errLogs, scopes, ops, tampered, lastExit, lastRecord, stream, call,
              switches>>

\* ---- ContextVarManager.merge_contexts ------------------------------------

MergeKeys == {"request_id", "custom"}
MergeValues == 1..MaxValue
\* the mappings a caller can pass: any keys, any values
Mappings == UNION {[K -> MergeValues] : K \in SUBSET MergeKeys}

\* one call of merge_contexts: what it returns and what the two argument
\* objects hold afterwards (copy() makes a new dict, update() writes to the
\* copy and only reads bound_context)
merge_contexts_call(bound_context, local_context) ==
    [fn |-> "merge_contexts",
     args |-> [bound_context |-> bound_context, local_context |-> local_context],
     after |-> [bound_context |-> bound_context, local_context |-> local_context],
     result |-> merge_contexts(bound_context, local_context)]

MergeCall ==
    /\ pure = NoCall
    /\ \E b \in Mappings, l \in Mappings : pure' = merge_contexts_call(b, l)
    /\ UNCHANGED <<mainVars, store, sw, qs, mon>>

\* C11: merge_contexts(bound_context, local_context) returns a mapping whose
\* keys are the union of both key sets; a key of bound_context carries the
\* bound value, a key only in local_context carries the local value; and
\* neither argument mapping is modified.
C11_MergePrecedence ==
    pure.fn = "merge_contexts" =>
        LET b == pure.args.bound_context
            l == pure.args.local_context
        IN  /\ DOMAIN pure.result = DOMAIN b \cup DOMAIN l
            /\ \A k \in DOMAIN b : pure.result[k] = b[k]
            /\ \A k \in DOMAIN l \ DOMAIN b : pure.result[k] = l[k]
            /\ pure.after = pure.args

\* a merge where one key is in both mappings with different values and
\* another key is in the local mapping only
C11_Witness ==
    /\ pure.fn = "merge_contexts"
    /\ \E k \in DOMAIN pure.args.bound_context \cap DOMAIN pure.args.local_context :
           pure.args.bound_context[k] # pure.args.local_context[k]
    /\ DOMAIN pure.args.local_context \ DOMAIN pure.args.bound_context # {}

\* ---- RequestLogMiddleware.get_request_id --------------------------------

PyNone == [type |-> "NoneType"]
\* bool(value) of an optional string
truthy(v) == v.type = "str" /\ v.val # ""

\* dict.get(key) / dict.get(key, default)
dict_get(m, key, default) == IF key \in DOMAIN m THEN m[key] ELSE default

IdStrings == {"", "id-h", "id-m"}
\* the requests get_request_id can be given: with or without a headers
\* attribute, the header and the META field present or not
IdRequests ==
    {[has_headers |-> hh, headers |-> h, META |-> m] :
        hh \in BOOLEAN,
        h \in UNION {[K -> {PyStr(v) : v \in IdStrings}] : K \in SUBSET {"x-request-id"}},
        m \in UNION {[K -> {PyStr(v) : v \in IdStrings}] : K \in SUBSET {"HTTP_X_REQUEST_ID"}}}
\* what str(uuid4()) can return
Uuids == {"uuid-1", "uuid-2"}

\* get_request_id: request.META.get("HTTP_X_REQUEST_ID") or request_id
get_request_id(request) ==
    LET request_id == IF request.has_headers
                      THEN dict_get(request.headers, "x-request-id", PyNone)
                      ELSE PyNone
        meta == dict_get(request.META, "HTTP_X_REQUEST_ID", PyNone)
    IN  IF truthy(meta) THEN meta ELSE request_id

\* _prepare_request: self.get_request_id(request) or str(uuid4())
prepare_request_id(request, uuid) ==
    LET found == get_request_id(request)
    IN  IF truthy(found) THEN found ELSE PyStr(uuid)

\* C14: when the x-request-id header and META['HTTP_X_REQUEST_ID'] both carry
\* a request id and the two differ, get_request_id returns the header value
\* and _prepare_request binds that header value as request_id.
C14_HeaderWins ==
    (/\ pure.fn = "_prepare_request"
     /\ pure.request.has_headers
     /\ "x-request-id" \in DOMAIN pure.request.headers
     /\ "HTTP_X_REQUEST_ID" \in DOMAIN pure.request.META
     /\ truthy(pure.request.headers["x-request-id"])
     /\ truthy(pure.request.META["HTTP_X_REQUEST_ID"])
     /\ pure.request.headers["x-request-id"] # pure.request.META["HTTP_X_REQUEST_ID"])
    => /\ pure.get_request_id = pure.request.headers["x-request-id"]
       /\ pure.request_id = pure.request.headers["x-request-id"]

\* ---- RequestLogMiddleware.get_ip_address --------------------------------

\* A header value is a sequence of characters; an address is written as one
\* symbol, since only "," and whitespace matter to split and strip.
IpChars == {"203.0.113.5", "70.41.3.18", ",", " "}
HeaderValues == UNION {[1..n -> IpChars] : n \in 0..MaxLen}
REMOTE_ADDR_VALUE == <<"192.0.2.1">>
UNKNOWN_IP == <<"Unknown IP">>
CACHED_IP == <<"198.51.100.7">>

\* str.split(sep)
RECURSIVE split(_, _)
split(str, sep) ==
    IF \E i \in 1..Len(str) : str[i] = sep
    THEN LET i == CHOOSE i \in 1..Len(str) :
                      str[i] = sep /\ \A j \in 1..(i - 1) : str[j] # sep
         IN  <<SubSeq(str, 1, i - 1)>> \o split(SubSeq(str, i + 1, Len(str)), sep)
    ELSE <<str>>

RECURSIVE lstrip(_)
lstrip(str) ==
    IF str # <<>> /\ Head(str) = " " THEN lstrip(Tail(str)) ELSE str
RECURSIVE rstrip(_)
rstrip(str) ==
    IF str # <<>> /\ str[Len(str)] = " " THEN rstrip(SubSeq(str, 1, Len(str) - 1)) ELSE str
\* str.strip()
strip(str) == rstrip(lstrip(str))

\* the requests get_ip_address can be given: an ip_address attribute set by
\* someone else or not, a forwarded-for field or not, a remote address or not
IpRequests ==
    {[has_ip_address |-> c, META |-> m] :
        c \in BOOLEAN,
        m \in {f @@ r :
                 f \in {EmptyMap} \cup {[k \in {"HTTP_X_FORWARDED_FOR"} |-> v] : v \in HeaderValues},
                 r \in {EmptyMap, [k \in {"REMOTE_ADDR"} |-> REMOTE_ADDR_VALUE]}}}

\* get_ip_address
get_ip_address(request) ==
    IF request.has_ip_address THEN CACHED_IP
    ELSE IF /\ "HTTP_X_FORWARDED_FOR" \in DOMAIN request.META
            /\ request.META["HTTP_X_FORWARDED_FOR"] # <<>>
    THEN LET ip_address_list ==
                 [i \in DOMAIN split(request.META["HTTP_X_FORWARDED_FOR"], ",") |->
                     strip(split(request.META["HTTP_X_FORWARDED_FOR"], ",")[i])]
         IN  ip_address_list[1]
    ELSE dict_get(request.META, "REMOTE_ADDR", UNKNOWN_IP)

GetIpAddressCall ==
    /\ pure = NoCall
    /\ \E request \in IpRequests :
           pure' = [fn |-> "get_ip_address",
                    request |-> request,
                    result |-> get_ip_address(request)]
    /\ UNCHANGED <<mainVars, store, sw, qs, mon>>

\* ---- RequestLogMiddleware._prepare_request ------------------------------

\* get_user_agent: request.META.get("HTTP_USER_AGENT", "Unknown User Agent")
get_user_agent(request) ==
    dict_get(request.META, "HTTP_USER_AGENT", PyStr("Unknown User Agent"))

\* the thread that calls _prepare_request
Caller == "w1"

\* _prepare_request on a request that has no ip_address attribute: the id,
\* the address and the agent go into self.context and are bound, and
\* REQUEST STARTED is logged
PrepareRequestIdCall ==
    /\ pure = NoCall
    /\ \E request \in IdRequests, uuid \in Uuids :
           LET request_id == prepare_request_id(request, uuid)
               ip_address == PyStr(get_ip_address([has_ip_address |-> FALSE,
                                                   META |-> request.META]))
               user_agent == get_user_agent(request)
               context == [k \in PrepareKeys |->
                              CASE k = "request_id" -> request_id
                                [] k = "ip_address" -> ip_address
                                [] OTHER -> user_agent]
               bound == bind(ctx, context_vars, Caller, context)
           IN  /\ self_context' = context
               /\ ctx' = bound
               /\ context_vars' = get_or_create(context_vars, DOMAIN context)
               /\ lastRecord' = emit(Caller, req[Caller], bound[Caller],
                                     "REQUEST STARTED", FALSE, EmptyMap)
               /\ pure' = [fn |-> "_prepare_request",
                           request |-> request,
                           uuid4 |-> uuid,
                           get_request_id |-> get_request_id(request),
                           request_id |-> request_id]
    /\ UNCHANGED <<get_response, cls, async_mode, pc, req, nextReq, routed,
                   handlerCalls, handlerExc, response, result, errLogs, scopes,
                   ops, tampered, lastExit, stream, call, switches, store, sw, qs, mon>>

\* the request object after get_ip_address returned: the function assigns
\* nothing to it
request_after_get_ip_address(request) == request

\* the metadata a request can carry when get_ip_address is called again
ChangedMETA ==
    {EmptyMap,
     [k \in {"REMOTE_ADDR"} |-> <<"70.41.3.18">>],
     [k \in {"HTTP_X_FORWARDED_FOR"} |-> <<"70.41.3.18">>],
     [k \in {"HTTP_X_FORWARDED_FOR"} |-> <<"203.0.113.5">>]
         @@ [k \in {"REMOTE_ADDR"} |-> REMOTE_ADDR_VALUE]}

\* two calls on one request object, its metadata replaced or not in between
GetIpAddressTwice ==
    /\ pure = NoCall
    /\ \E request \in IpRequests, changed \in BOOLEAN, META \in ChangedMETA :
           LET after == request_after_get_ip_address(request)
               again == IF changed THEN [after EXCEPT !.META = META] ELSE after
           IN  pure' = [fn |-> "get_ip_address_twice",
                        request |-> request,
                        first |-> get_ip_address(request),
                        again |-> again,
                        second |-> get_ip_address(again)]
    /\ UNCHANGED <<mainVars, store, sw, qs, mon>>

\* C28: the first get_ip_address call caches its result on the request, so
\* every later call on that request returns the first result, whatever has
\* happened to the request's metadata in between.
C28_FirstResultCached ==
    pure.fn = "get_ip_address_twice" => pure.second = pure.first

\* the characters of a header value before its first comma, without the
\* whitespace around them
FirstEntry(str) ==
    LET n == IF \E i \in 1..Len(str) : str[i] = ","
             THEN (CHOOSE i \in 1..Len(str) :
                       str[i] = "," /\ \A j \in 1..(i - 1) : str[j] # ",") - 1
             ELSE Len(str)
        lo == CHOOSE a \in 1..(n + 1) :
                  /\ \A j \in 1..(a - 1) : str[j] = " "
                  /\ a <= n => str[a] # " "
        hi == CHOOSE b \in 0..n :
                  /\ \A j \in (b + 1)..n : str[j] = " "
                  /\ b >= 1 => str[b] # " "
    IN  IF lo > hi THEN <<>> ELSE SubSeq(str, lo, hi)

\* get_ip_address on a request nobody attached an ip_address to: the first
\* entry of a non-empty forwarded-for value, else the remote address
GetIpAddress_FirstForwardedEntry ==
    (pure.fn = "get_ip_address" /\ ~pure.request.has_ip_address) =>
        IF /\ "HTTP_X_FORWARDED_FOR" \in DOMAIN pure.request.META
           /\ pure.request.META["HTTP_X_FORWARDED_FOR"] # <<>>
        THEN pure.result = FirstEntry(pure.request.META["HTTP_X_FORWARDED_FOR"])
        ELSE "REMOTE_ADDR" \in DOMAIN pure.request.META
                 => pure.result = pure.request.META["REMOTE_ADDR"]

\* '203.0.113.5, 70.41.3.18' gives '203.0.113.5'
GetIpAddress_Example ==
    /\ pure.fn = "get_ip_address"
    /\ ~pure.request.has_ip_address
    /\ "HTTP_X_FORWARDED_FOR" \in DOMAIN pure.request.META
    /\ pure.request.META["HTTP_X_FORWARDED_FOR"] = <<"203.0.113.5", ",", " ", "70.41.3.18">>
    /\ pure.result = <<"203.0.113.5">>

\* ---- JSONFormatter.format -------------------------------------------------
\* A message is a sequence of tokens joined by single spaces: plain words and
\* key=value tokens.  The raw values are those of RawValues; what
\* str.lower, ast.literal_eval and json.dumps do with each of them is
\* tabulated from the interpreter.

RawValues == {"123", "login", "True", "TRUE", "false", "None", "[1,2]",
              "1e999", "{1,2}", "b'a'", "{[1]:2}"}
Word(text) == [kind |-> "word", text |-> text]
KV(key, raw) == [kind |-> "kv", key |-> key, raw |-> raw]
Tokens ==
    {Word("hello"), Word("two\nlines"),
     KV("user_id", "123"), KV("user_id", "login"), KV("action", "login"),
     KV("is_active", "True"), KV("is_active", "TRUE"), KV("is_active", "false"),
     KV("items", "[1,2]"), KV("owner", "None"), KV("big", "1e999"),
     KV("tags", "{1,2}"), KV("data", "b'a'"), KV("map", "{[1]:2}"),
     KV("message", "login"), KV("levelname", "login")}
Messages == UNION {[1..n -> Tokens] : n \in 0..MaxTokens}

\* the fields the format string declares and what the record holds for them
specifiers == <<"levelname", "message">>
LEVELNAME == "INFO"

PyInt(n) == [type |-> "int", val |-> n]
PyBool(b) == [type |-> "bool", val |-> b]
PyFloat(repr) == [type |-> "float", val |-> repr]
PyList(items) == [type |-> "list", items |-> items]
PySet(items) == [type |-> "set", items |-> items]
PyBytes(repr) == [type |-> "bytes", val |-> repr]
PyText(pieces) == [type |-> "text", pieces |-> pieces]
Returns(v) == [raised |-> "none", value |-> v]
Raises(exc) == [raised |-> exc]

\* value.lower()
lower(value) ==
    CASE value = "True" -> "true"
      [] value = "TRUE" -> "true"
      [] value = "None" -> "none"
      [] OTHER -> value

\* ast.literal_eval(value)
literal_eval(value) ==
    CASE value = "123" -> Returns(PyInt(123))
      [] value = "None" -> Returns(PyNone)
      [] value = "[1,2]" -> Returns(PyList(<<PyInt(1), PyInt(2)>>))
      [] value = "1e999" -> Returns(PyFloat("inf"))
      [] value = "{1,2}" -> Returns(PySet({PyInt(1), PyInt(2)}))
      [] value = "b'a'" -> Returns(PyBytes("a"))
      [] value = "{[1]:2}" -> Raises("TypeError")
      [] value = "True" -> Returns(PyBool(TRUE))
      [] value \in {"login", "TRUE", "false"} -> Raises("ValueError")

\* _convert_value: boolean keyword, else literal_eval, else (ValueError or
\* SyntaxError only) the string itself
convert_value(value) ==
    IF lower(value) \in {"true", "false"}
    THEN Returns(PyBool(lower(value) = "true"))
    ELSE LET parsed == literal_eval(value)
         IN  IF parsed.raised \in {"ValueError", "SyntaxError"}
             THEN Returns(PyStr(value))
             ELSE parsed

\* key_value_pattern.finditer(message): positions of the key=value tokens
finditer(message) == {i \in DOMAIN message : message[i].kind = "kv"}

\* _extract_key_value_pairs: a later match of a key replaces an earlier one
extract_key_value_pairs(message) ==
    IF \E i \in finditer(message) : convert_value(message[i].raw).raised # "none"
    THEN Raises((LET i == CHOOSE i \in finditer(message) :
                          /\ convert_value(message[i].raw).raised # "none"
                          /\ \A j \in finditer(message) :
                                 j < i => convert_value(message[j].raw).raised = "none"
                 IN convert_value(message[i].raw).raised))
    ELSE Returns([key \in {message[i].key : i \in finditer(message)} |->
                    LET last == CHOOSE i \in finditer(message) :
                                    /\ message[i].key = key
                                    /\ \A j \in finditer(message) :
                                           message[j].key = key => j <= i
                    IN  convert_value(message[last].raw).value])

\* str.strip() of a text given by its pieces: a piece "" at either end goes
\* away with the space that joined it
RECURSIVE strip_pieces(_)
strip_pieces(pieces) ==
    IF pieces # <<>> /\ Head(pieces) = "" THEN strip_pieces(Tail(pieces))
    ELSE IF pieces # <<>> /\ pieces[Len(pieces)] = ""
    THEN strip_pieces(SubSeq(pieces, 1, Len(pieces) - 1))
    ELSE pieces

\* the text of the message
getMessage(message) ==
    [i \in DOMAIN message |->
        IF message[i].kind = "kv"
        THEN <<message[i].key, "=", message[i].raw>> ELSE <<message[i].text>>]

\* _remove_key_value_pairs: key_value_pattern.sub("", message).strip()
remove_key_value_pairs(message) ==
    strip_pieces([i \in DOMAIN message |->
                     IF message[i].kind = "kv" THEN "" ELSE message[i].text])

\* the message left alone, when no pair was found
keep_pieces(message) == [i \in DOMAIN message |-> message[i].text]

\* _clean_message: newlines and tabs become spaces, then strip()
clean_message(pieces) ==
    strip_pieces([i \in DOMAIN pieces |->
                     IF pieces[i] = "two\nlines" THEN "two lines" ELSE pieces[i]])

\* what json.dumps writes for a value, or the exception it raises
RECURSIVE json_encode(_)
json_encode(v) ==
    CASE v.type = "int" -> Returns([json |-> "number", val |-> v.val])
      [] v.type = "bool" -> Returns([json |-> IF v.val THEN "true" ELSE "false"])
      [] v.type = "NoneType" -> Returns([json |-> "null"])
      [] v.type = "str" -> Returns([json |-> "string", val |-> v.val])
      [] v.type = "text" -> Returns([json |-> "string", pieces |-> v.pieces])
      [] v.type = "float" -> Returns([json |-> "Infinity"])
      [] v.type = "list" ->
            IF \E i \in DOMAIN v.items : json_encode(v.items[i]).raised # "none"
            THEN Raises("TypeError")
            ELSE Returns([json |-> "array",
                          items |-> [i \in DOMAIN v.items |-> json_encode(v.items[i]).value]])
      [] v.type \in {"set", "bytes"} -> Raises("TypeError")

\* json.dumps(log_data, indent=2)
json_dumps(log_data) ==
    IF \E k \in DOMAIN log_data : json_encode(log_data[k]).raised # "none"
    THEN Raises("TypeError")
    ELSE Returns([k \in DOMAIN log_data |-> json_encode(log_data[k]).value])

\* the fields taken from the record: str() of each declared field
declared_fields(message) ==
    [f \in {specifiers[i] : i \in DOMAIN specifiers} |->
        IF f = "message" THEN PyText(getMessage(message)) ELSE PyStr(LEVELNAME)]

\* JSONFormatter.format
format(message) ==
    LET key_value_pairs == extract_key_value_pairs(message)
    IN  IF key_value_pairs.raised # "none" THEN key_value_pairs
        ELSE LET found == key_value_pairs.value # EmptyMap
                 updated == IF found
                            THEN merge_contexts(key_value_pairs.value, declared_fields(message))
                            ELSE declared_fields(message)
                 text == IF found THEN remove_key_value_pairs(message)
                         ELSE keep_pieces(message)
                 log_data == [k \in DOMAIN updated \cup {"message"} |->
                                 IF k = "message" THEN PyText(clean_message(text))
                                 ELSE updated[k]]
             IN  json_dumps(log_data)

FormatCall ==
    /\ pure = NoCall
    /\ \E message \in Messages :
           pure' = [fn |-> "format", message |-> message, result |-> format(message)]
    /\ UNCHANGED <<mainVars, store, sw, qs, mon>>

\* RFC 8259 has no token for an infinite number
RECURSIVE ValidJson(_)
ValidJson(j) ==
    /\ j.json # "Infinity"
    /\ j.json = "array" => \A i \in DOMAIN j.items : ValidJson(j.items[i])

\* the typing the formatter promises for a raw value: boolean keyword, else
\* the literal when there is one that JSON can carry, else the raw string
Typed(raw) ==
    CASE raw \in {"True", "TRUE"} -> [json |-> "true"]
      [] raw = "false" -> [json |-> "false"]
      [] raw = "123" -> [json |-> "number", val |-> 123]
      [] raw = "None" -> [json |-> "null"]
      [] raw = "[1,2]" -> [json |-> "array", items |-> <<[json |-> "number", val |-> 1],
                                                          [json |-> "number", val |-> 2]>>]
      [] OTHER -> [json |-> "string", val |-> raw]

\* the raw value of the last token carrying the key
LastRaw(message, key) ==
    message[CHOOSE i \in finditer(message) :
                /\ message[i].key = key
                /\ \A j \in finditer(message) : message[j].key = key => j <= i].raw

\* the output is valid JSON, every matched key is a top-level field typed as
\* promised and the message field is the text without the matched tokens
KeysPromoted ==
    /\ pure.result.raised = "none"
    /\ \A k \in DOMAIN pure.result.value : ValidJson(pure.result.value[k])
    /\ \A i \in finditer(pure.message) :
           /\ pure.message[i].key \in DOMAIN pure.result.value
           /\ pure.result.value[pure.message[i].key]
                  = Typed(LastRaw(pure.message, pure.message[i].key))
    /\ "message" \in DOMAIN pure.result.value
    /\ pure.result.value["message"]
           = [json |-> "string", pieces |-> remove_key_value_pairs(pure.message)]

\* C19: for a message of key=value tokens format produces valid JSON in
\* which every matched key is a top-level field typed boolean keyword, then
\* literal, else raw string, and the message field has the tokens removed.
C19_KeyValueTokensPromoted ==
    (pure.fn = "format" /\ \A i \in DOMAIN pure.message : pure.message[i].kind = "kv")
        => KeysPromoted

\* C29: in the output of format every declared field carries the value of
\* the record's own attribute: a key=value token of the message whose key is
\* the name of a declared field does not replace it.
C29_DeclaredFieldsFromRecord ==
    (pure.fn = "format" /\ pure.result.raised = "none") =>
        /\ "levelname" \in DOMAIN pure.result.value
        /\ pure.result.value["levelname"].json = "string"
        /\ pure.result.value["levelname"].val = LEVELNAME

\* C20: format never raises because of the message text, and a value that
\* cannot be parsed, or whose literal JSON cannot carry, is left as the raw
\* string in an output that is valid JSON.
C20_NeverRaises ==
    pure.fn = "format" =>
        /\ pure.result.raised = "none"
        /\ \A k \in DOMAIN pure.result.value : ValidJson(pure.result.value[k])
        /\ \A i \in finditer(pure.message) :
               (/\ pure.message[i].raw \in {"login", "{1,2}", "b'a'", "{[1]:2}"}
                /\ pure.message[i].key # "message"
                /\ pure.message[i].raw = LastRaw(pure.message, pure.message[i].key))
               => pure.result.value[pure.message[i].key]
                      = [json |-> "string", val |-> pure.message[i].raw]

\* ---- the three structured formatters, field by field ----------------------
\* A template declares up to MaxFields fields; the record carries levelname
\* only, so "nosuch" and "exception" are fields it does not carry.  The
\* output is the sequence of fields in the order they are written.

SpecifierNames == {"levelname", "message", "nosuch", "exception"}
Templates == UNION {[1..n -> SpecifierNames] : n \in 0..MaxFields}
RenderTokens ==
    {Word("hello"), KV("user_id", "123"), KV("levelname", "login"),
     KV("exception", "login")}
RenderMessages == UNION {[1..n -> RenderTokens] : n \in 0..MaxRenderTokens}
Formatters == {"JSONFormatter", "XMLFormatter", "FLATFormatter"}
TRACE == "Traceback"

Field(key, value) == [key |-> key, value |-> value]

\* _get_field_value: the message, an attribute of the record, or None
get_field_value(message, specifier) ==
    IF specifier = "message" THEN PyText(getMessage(message))
    ELSE IF specifier = "levelname" THEN PyStr(LEVELNAME)
    ELSE PyNone

\* _handle_complex_value of a value that is no dict, list or tuple: str(value)
handle_complex_value(value) ==
    IF value = PyNone THEN PyStr("None") ELSE value

\* d[key] = value on a dict, which keeps the position of a key it has
dict_set(d, key, value) ==
    IF \E i \in DOMAIN d : d[i].key = key
    THEN [i \in DOMAIN d |-> IF d[i].key = key THEN Field(key, value) ELSE d[i]]
    ELSE Append(d, Field(key, value))

\* d.update(pairs), and a dict comprehension over a sequence of pairs
RECURSIVE dict_update(_, _)
dict_update(d, pairs) ==
    IF pairs = <<>> THEN d
    ELSE dict_update(dict_set(d, Head(pairs).key, Head(pairs).value), Tail(pairs))

\* the pairs _extract_key_value_pairs returns, in the order of the matches
ordered_key_value_pairs(message) ==
    LET matches == SelectSeq(message, LAMBDA t : t.kind = "kv")
    IN  dict_update(<<>>, [i \in DOMAIN matches |->
                              Field(matches[i].key, convert_value(matches[i].raw).value)])

\* JSONFormatter.format, with the order of the fields
json_format(template, message, exc_info) ==
    IF extract_key_value_pairs(message).raised # "none"
    THEN extract_key_value_pairs(message)
    ELSE LET declared == dict_update(<<>>, [i \in DOMAIN template |->
                             Field(template[i],
                                   handle_complex_value(get_field_value(message, template[i])))])
             key_value_pairs == ordered_key_value_pairs(message)
             found == key_value_pairs # <<>>
             updated == IF found THEN dict_update(declared, key_value_pairs) ELSE declared
             text == IF found THEN remove_key_value_pairs(message) ELSE keep_pieces(message)
             with_message == dict_set(updated, "message", PyText(clean_message(text)))
             log_data == IF exc_info THEN dict_set(with_message, "exception", PyStr(TRACE))
                         ELSE with_message
         IN  IF \E i \in DOMAIN log_data : json_encode(log_data[i].value).raised # "none"
             THEN Raises("TypeError")
             ELSE Returns([i \in DOMAIN log_data |->
                              Field(log_data[i].key, json_encode(log_data[i].value).value)])

\* the exception element / exception='...' both other formatters append
add_exception(fields, exc_info) ==
    IF exc_info THEN Append(fields, Field("exception", PyStr(TRACE))) ELSE fields

\* XMLFormatter.format: one element per declared field whose value is
\* neither None nor ""
xml_format(template, message, exc_info) ==
    LET kept == SelectSeq(template, LAMBDA f :
                    /\ get_field_value(message, f) # PyNone
                    /\ get_field_value(message, f) # PyText(<<>>))
    IN  Returns(add_exception(
            [i \in DOMAIN kept |->
                Field(kept[i], handle_complex_value(get_field_value(message, kept[i])))],
            exc_info))

\* FLATFormatter.format: name='value' for every declared field whose value
\* is not None
flat_format(template, message, exc_info) ==
    LET kept == SelectSeq(template, LAMBDA f : get_field_value(message, f) # PyNone)
    IN  Returns(add_exception(
            [i \in DOMAIN kept |-> Field(kept[i], get_field_value(message, kept[i]))],
            exc_info))

render(formatter, template, message, exc_info) ==
    CASE formatter = "JSONFormatter" -> json_format(template, message, exc_info)
      [] formatter = "XMLFormatter" -> xml_format(template, message, exc_info)
      [] formatter = "FLATFormatter" -> flat_format(template, message, exc_info)

RenderCall ==
    /\ pure = NoCall
    /\ \E formatter \in Formatters, template \in Templates,
          message \in RenderMessages, exc_info \in BOOLEAN :
           pure' = [fn |-> "render", formatter |-> formatter, template |-> template,
                    message |-> message, exc_info |-> exc_info,
                    result |-> render(formatter, template, message, exc_info)]
    /\ UNCHANGED <<mainVars, store, sw, qs, mon>>

\* the keys of the output, in output order
OutputKeys == [i \in DOMAIN pure.result.value |-> pure.result.value[i].key]
Declares(f) == \E i \in DOMAIN pure.template : pure.template[i] = f
Written(f) == \E i \in DOMAIN OutputKeys : OutputKeys[i] = f

\* C21: a declared field the record does not carry gets no key in the JSON
\* output and no element in the XML output, and formatting does not raise
\* because of it.
C21_MissingFieldDropped ==
    (/\ pure.fn = "render"
     /\ pure.formatter \in {"JSONFormatter", "XMLFormatter"}
     /\ Declares("nosuch")
     /\ \A i \in DOMAIN pure.message : pure.message[i].kind = "word")
    => /\ pure.result.raised = "none"
       /\ ~Written("nosuch")

Before(f, g) ==
    \A i, j \in DOMAIN OutputKeys : (OutputKeys[i] = f /\ OutputKeys[j] = g) => i < j
FirstDeclared(f) == CHOOSE i \in DOMAIN pure.template :
    pure.template[i] = f /\ \A j \in 1..(i - 1) : pure.template[j] # f

\* C22: declared fields come in declaration order, message is the last
\* field of JSON and FLAT output wherever the template has it, and the
\* exception field comes after every other field in all three outputs.
\* No formatter moves message from its declared place, and in JSON a key
\* that exists keeps its place when it is assigned again.
C22_MessageAndExceptionLast ==
    (pure.fn = "render" /\ pure.result.raised = "none") =>
        /\ \A f, g \in SpecifierNames \ {"message", "exception"} :
               (Declares(f) /\ Declares(g) /\ FirstDeclared(f) < FirstDeclared(g))
                   => Before(f, g)
        /\ pure.formatter \in {"JSONFormatter", "FLATFormatter"} =>
               \A i \in DOMAIN OutputKeys :
                   OutputKeys[i] \notin {"message", "exception"} => Before(OutputKeys[i], "message")
        /\ \A i \in DOMAIN OutputKeys :
               OutputKeys[i] # "exception" => Before(OutputKeys[i], "exception")

\* ---- specification of the pure functions -----------------------------------

PureInit ==
    /\ Idle
    /\ pure = NoCall
    /\ store = NoStore
    /\ sw = NoStream
    /\ qs = NoQueries
    /\ mon = NoMonitor

PureNext ==
    \/ MergeCall
    \/ PrepareRequestIdCall
    \/ GetIpAddressCall
    \/ GetIpAddressTwice
    \/ FormatCall
    \/ RenderCall

SpecPure == PureInit /\ [][PureNext]_vars

\* ==== the wrapped streaming body ==========================================

Chunks == {"chunk1", "chunk2"}
\* the bodies a response can carry: up to MaxChunks items, then the source
\* stops, raises an Exception ("error") or raises asyncio.CancelledError
Bodies == UNION {[1..n -> Chunks] : n \in 0..MaxChunks}
Endings == {"stop", "error", "cancel"}

LogEntry(level, msg, exc_info) == [level |-> level, msg |-> msg, exc_info |-> exc_info]

\* what the source answers when the wrapper pulls its next item, n items
\* having been pulled before
source_next(chunks, ending, n) ==
    IF n < Len(chunks) THEN [ev |-> "item", item |-> chunks[n + 1]]
    ELSE [ev |-> ending]

\* logger.info("Streaming started: ...") runs when the generator is first resumed
started_logs(status) ==
    IF status = "created" THEN <<LogEntry("info", "Streaming started", FALSE)>> ELSE <<>>

\* a wrapper that yields every pulled item twice
wrapper_yields_twice(item) == <<item, item>>

\* yield from streaming_content / async for chunk in ...: yield chunk
wrapper_yields(item) == <<item>>

\* _sync_streaming_wrapper: except Exception: logger.exception(...); raise.
\* asyncio.CancelledError derives from BaseException and passes the clause.
sync_wrapper_logs(exc) ==
    IF exc = "error" THEN <<LogEntry("error", "Streaming failed", TRUE)>> ELSE <<>>

\* _async_streaming_wrapper: except asyncio.CancelledError: logger.warning(...);
\* except Exception: logger.exception(...); both re-raise
async_wrapper_logs(exc) ==
    IF exc = "cancel" THEN <<LogEntry("warning", "Streaming was cancelled", FALSE)>>
    ELSE <<LogEntry("error", "Streaming failed", TRUE)>>

wrapper_logs(kind, exc) ==
    IF kind = "sync" THEN sync_wrapper_logs(exc) ELSE async_wrapper_logs(exc)

\* the bare raise in both except clauses, and an uncaught exception alike
wrapper_raises(exc) == exc

Draining == sw.kind # "none" /\ sw.status \in {"created", "suspended"}
Pulled == source_next(sw.chunks, sw.ending, Len(sw.pulled))

\* the consumer asks for the next item and the source has one
WrapperYield ==
    /\ Draining
    /\ Pulled.ev = "item"
    /\ sw' = [sw EXCEPT !.status = "suspended",
                        !.logs = @ \o started_logs(sw.status),
                        !.pulled = Append(@, Pulled.item),
                        !.yielded = @ \o wrapper_yields(Pulled.item)]
    /\ UNCHANGED <<mainVars, pure, store, qs, mon>>

\* the consumer asks for the next item and the source is exhausted
WrapperFinish ==
    /\ Draining
    /\ Pulled.ev = "stop"
    /\ sw' = [sw EXCEPT !.status = "finished",
                        !.logs = @ \o started_logs(sw.status)
                                   \o <<LogEntry("info", "Streaming finished", FALSE)>>]
    /\ UNCHANGED <<mainVars, pure, store, qs, mon>>

\* the consumer asks for the next item and the source raises
WrapperRaise ==
    /\ Draining
    /\ Pulled.ev \in {"error", "cancel"}
    /\ sw' = [sw EXCEPT !.status = "raised",
                        !.logs = @ \o started_logs(sw.status)
                                   \o wrapper_logs(sw.kind, Pulled.ev),
                        !.raised = wrapper_raises(Pulled.ev)]
    /\ UNCHANGED <<mainVars, pure, store, qs, mon>>

StreamInit ==
    /\ Idle
    /\ pure = NoCall
    /\ store = NoStore
    /\ qs = NoQueries
    /\ mon = NoMonitor
    /\ \E kind \in {"sync", "async"}, chunks \in Bodies, ending \in Endings :
           sw = [kind |-> kind, chunks |-> chunks, ending |-> ending,
                 status |-> "created", logs |-> <<>>, pulled |-> <<>>,
                 yielded |-> <<>>, raised |-> "none"]

StreamNext ==
    \/ WrapperYield
    \/ WrapperFinish
    \/ WrapperRaise

SpecStream == StreamInit /\ [][StreamNext]_vars

\* the entries the wrapper logged about a failure of the source
FailureLogs == SelectSeq(sw.logs, LAMBDA e : e.level \in {"warning", "error"})

\* C12: the items the wrapper has yielded are, at every moment, exactly the
\* items pulled from the source so far (same items, same order, none
\* duplicated or dropped, none held back), and once the wrapper finished
\* they are the whole body of the source.
C12_SameSequence ==
    sw.kind # "none" =>
        /\ sw.yielded = sw.pulled
        /\ sw.pulled = SubSeq(sw.chunks, 1, Len(sw.pulled))
        /\ sw.status = "finished" => sw.yielded = sw.chunks

\* a body of two different chunks drained to its end
C12_Witness ==
    /\ sw.kind # "none"
    /\ sw.status = "finished"
    /\ Len(sw.yielded) = 2
    /\ sw.yielded[1] # sw.yielded[2]

\* what C13 promises after the source failed
PropagatedUnchanged ==
    /\ sw.raised = sw.ending
    /\ sw.yielded = sw.chunks
    /\ sw.logs[Len(sw.logs)].msg # "Streaming finished"

\* C13: in both wrappers a failure of the source is logged exactly
\* once, at warning severity for a cancellation and at error severity with
\* the trace otherwise, is re-raised unchanged, and no chunk follows.
\* _sync_streaming_wrapper has only "except Exception": a cancellation
\* passes it without any entry.
C13_FailureLoggedOnce ==
    (sw.kind # "none" /\ sw.status = "raised") =>
        /\ PropagatedUnchanged
        /\ FailureLogs =
               <<IF sw.ending = "cancel"
                 THEN LogEntry("warning", "Streaming was cancelled", FALSE)
                 ELSE LogEntry("error", "Streaming failed", TRUE)>>

\* the entries that end a wrapped body
TerminalMessages ==
    {"Streaming finished", "Streaming failed", "Streaming was cancelled"}
TerminalLogs == SelectSeq(sw.logs, LAMBDA e : e.msg \in TerminalMessages)
StartedLogs == SelectSeq(sw.logs, LAMBDA e : e.msg = "Streaming started")

\* what C25 says of every moment of a drain, whoever drains and however far
StreamEntriesOrdered ==
    \* started is the first entry, logged before the first item is yielded
    /\ sw.yielded # <<>> =>
           /\ sw.logs # <<>>
           /\ sw.logs[1] = LogEntry("info", "Streaming started", FALSE)
    /\ Len(StartedLogs) <= 1
    \* finished only after the source was exhausted without error
    /\ (\E i \in 1..Len(sw.logs) : sw.logs[i].msg = "Streaming finished") =>
           /\ sw.ending = "stop"
           /\ sw.pulled = sw.chunks
           /\ sw.status = "finished"
    /\ Len(TerminalLogs) <= 1
    /\ sw.status \in {"created", "suspended"} => TerminalLogs = <<>>
    /\ sw.status = "finished" =>
           TerminalLogs = <<LogEntry("info", "Streaming finished", FALSE)>>

\* C25: 'Streaming started' precedes the first item, 'Streaming
\* finished' follows the exhaustion of the source, at most one of the three
\* terminal entries is ever logged, and exactly one once the body was drained
\* to its end or to its failure.  A sync body whose source raises
\* asyncio.CancelledError ends with none of them (the defect of C13).
C25_OneTerminalEntry ==
    sw.kind # "none" =>
        /\ StreamEntriesOrdered
        /\ sw.status = "raised" =>
               /\ Len(TerminalLogs) = 1
               /\ TerminalLogs[1].msg # "Streaming finished"

\* ==== request id and caller address of a request's entries =================

\* the REQUEST STARTED / REQUEST FINISHED entry of a request whose handler
\* left the entries bound by _prepare_request alone
BoundaryRecord ==
    /\ lastRecord.msg \in {"REQUEST STARTED", "REQUEST FINISHED"}
    /\ ~tampered[lastRecord.worker]

\* C15: the request_id in the merged context of a request's REQUEST STARTED
\* entry and of its REQUEST FINISHED entry is the id _prepare_request
\* obtained for that request, whatever other requests the same middleware
\* instance is handling at the time.
C15_OwnRequestId ==
    BoundaryRecord =>
        /\ lastRecord.context.type = "dict"
        /\ "request_id" \in DOMAIN lastRecord.context.items
        /\ lastRecord.context.items["request_id"].owner = lastRecord.req

\* C16: for a blocking request, the ip_address in the merged context of its
\* REQUEST STARTED and of its REQUEST FINISHED entry is the address
\* get_ip_address computes from that request (first forwarded-for entry,
\* else the remote address).
C16_OwnIpAddress ==
    (BoundaryRecord /\ ~async_mode) =>
        /\ lastRecord.context.type = "dict"
        /\ "ip_address" \in DOMAIN lastRecord.context.items
        /\ lastRecord.context.items["ip_address"].owner = lastRecord.req

\* ==== one execution context driven through the manager ====================
\* A caller binds, batch-binds, resets (last token set first), unbinds and
\* clears in one thread or task.

StoreKeys == {"request_id", "custom"}
StoreKeySets == {{"request_id"}, {"custom"}, {"request_id", "custom"}}
\* the value the caller passes in its n-th call: a new one every time
StoreValue(n) == Val(0, "caller", n)
StoreWorker == "w1"

\* the manager's operators take the contexts of all workers
one(c) == [w \in {StoreWorker} |-> c]

CanOperate == store.op # "none" /\ store.n < MaxStoreOps

\* manager.bind(key=value)
SBind ==
    /\ CanOperate
    /\ \E k \in StoreKeys :
        LET kv == [x \in {k} |-> StoreValue(store.n + 1)]
        IN  store' = [store EXCEPT
                !.op = "bind",
                !.n = @ + 1,
                !.ctx = bind(one(store.ctx), store.registry, StoreWorker, kv)[StoreWorker],
                !.registry = get_or_create(store.registry, {k}),
                !.sinceBind = @ \ {k},
                !.sinceWrite = @ \ {k},
                !.last = [keys |-> {k}]]
    /\ UNCHANGED <<mainVars, pure, sw, qs, mon>>

\* tokens = manager.batch_bind(**kv)
SBatchBind ==
    /\ CanOperate
    /\ Len(store.stack) < MaxDepth
    /\ \E K \in StoreKeySets :
        LET kv == [x \in K |-> StoreValue(store.n + 1)]
        IN  store' = [store EXCEPT
                !.op = "batch_bind",
                !.n = @ + 1,
                !.ctx = bind(one(store.ctx), store.registry, StoreWorker, kv)[StoreWorker],
                !.registry = get_or_create(store.registry, K),
                !.stack = Append(@, [tokens |-> batch_bind_tokens(one(store.ctx), store.registry, StoreWorker, kv),
                                     before |-> [v \in {first_var(k) : k \in K} |-> store.ctx[v]]]),
                !.sinceBind = @ \ K,
                !.sinceWrite = @ \ K,
                !.last = [keys |-> K]]
    /\ UNCHANGED <<mainVars, pure, sw, qs, mon>>

\* manager.reset(tokens) with the token set obtained last
SReset ==
    /\ CanOperate
    /\ store.stack # <<>>
    /\ LET top == store.stack[Len(store.stack)]
       IN  store' = [store EXCEPT
                !.op = "reset",
                !.n = @ + 1,
                !.ctx = reset(one(store.ctx), store.registry, StoreWorker, top.tokens)[StoreWorker],
                !.registry = get_or_create(store.registry, DOMAIN top.tokens),
                !.stack = SubSeq(@, 1, Len(@) - 1),
                !.sinceWrite = @ \ DOMAIN top.tokens,
                !.last = [keys |-> DOMAIN top.tokens, before |-> top.before]]
    /\ UNCHANGED <<mainVars, pure, sw, qs, mon>>

\* manager.unbind(key)
SUnbind ==
    /\ CanOperate
    /\ \E k \in StoreKeys :
        store' = [store EXCEPT
            !.op = "unbind",
            !.n = @ + 1,
            !.ctx = unbind(one(store.ctx), store.registry, StoreWorker, k)[StoreWorker],
            !.sinceBind = @ \cup {k},
            !.sinceWrite = @ \cup {k},
            !.last = [keys |-> {k}]]
    /\ UNCHANGED <<mainVars, pure, sw, qs, mon>>

\* manager.clear()
SClear ==
    /\ CanOperate
    /\ store' = [store EXCEPT
            !.op = "clear",
            !.n = @ + 1,
            !.ctx = clear(one(store.ctx), store.registry, StoreWorker)[StoreWorker],
            !.sinceBind = Keys,
            !.sinceWrite = Keys,
            !.last = [keys |-> Keys]]
    /\ UNCHANGED <<mainVars, pure, sw, qs, mon>>

StoreInit ==
    /\ Idle
    /\ pure = NoCall
    /\ sw = NoStream
    /\ qs = NoQueries
    /\ mon = NoMonitor
    /\ store = [op |-> "start", n |-> 0, ctx |-> BaseContext, registry |-> <<>>, stack |-> <<>>,
                sinceBind |-> {}, sinceWrite |-> {}, last |-> [keys |-> {}]]

StoreNext ==
    \/ SBind
    \/ SBatchBind
    \/ SReset
    \/ SUnbind
    \/ SClear

SpecStore == StoreInit /\ [][StoreNext]_vars

\* get_contextvars() of the context
Snapshot == get_contextvars(store.ctx)

\* C17: a reset of the token set obtained last puts every key of that
\* batch_bind back to exactly the state it had just before the batch_bind:
\* the same value, or absent from get_contextvars() when it was absent;
\* whatever was bound, unbound, cleared or batch-bound and reset in between.
C17_ResetRestoresPreBindState ==
    (store.op = "reset") =>
        \A k \in store.last.keys :
            /\ store.ctx[first_var(k)] = store.last.before[first_var(k)]
            /\ IF store.last.before[first_var(k)].type = "val"
               THEN /\ k \in DOMAIN Snapshot
                    /\ Snapshot[k] = store.last.before[first_var(k)]
               ELSE k \notin DOMAIN Snapshot

\* the inner of two nested batch_binds on one key was reset and the key is
\* back at the value the outer batch_bind gave it; the outer one is pending
C17_Witness ==
    /\ store.op = "reset"
    /\ Len(store.stack) = 1
    /\ \E k \in store.last.keys \cap DOMAIN store.stack[1].tokens :
           /\ store.stack[1].tokens[k].old_value = MISSING
           /\ k \in DOMAIN Snapshot

\* C18 as stated: a key that was unbound, and every key after a clear, stays
\* out of get_contextvars() until it is bound again by bind or batch_bind;
\* and no entry of get_contextvars() ever holds the placeholder.
C18_HiddenUntilBound ==
    (store.op # "none") =>
        /\ \A k \in store.sinceBind : k \notin DOMAIN Snapshot
        /\ \A k \in DOMAIN Snapshot : Snapshot[k] # ELLIPSIS

\* C18 amended: ... until it is bound again by bind or batch_bind, or put
\* back by a reset of tokens that remember a value for it.
C18_HiddenUntilWritten ==
    (store.op # "none") =>
        /\ \A k \in store.sinceWrite : k \notin DOMAIN Snapshot
        /\ \A k \in DOMAIN Snapshot : Snapshot[k] # ELLIPSIS

\* after a clear, with one key bound before it and another never bound
C18_Witness ==
    /\ store.op = "clear"
    /\ store.ctx[first_var("request_id")] = ELLIPSIS
    /\ store.ctx[first_var("custom")] = MISSING
    /\ Snapshot = EmptyMap

\* ==== the query log sampled by RequestLogMiddleware =========================

\* settings.DEBUG is on (the query log records only then) and
\* is_log_sql_queries_enabled() answered True when the instance was built.
Modes == {"blocking", "cooperative"}

\* django.db.connection of the code a worker runs: each thread of blocking
\* mode has a connection of its own, the tasks of one event loop share one
connection(mode, w) == IF mode = "blocking" THEN w ELSE "w1"

\* the threads that own a connection: the workers' and the pool thread that
\* sync_to_async(..., thread_sensitive=False) runs _finalize_request on
Threads == Workers \cup {"pool"}

\* django.db.connection as _finalize_request sees it: __sync_call__ calls it
\* on the request's thread, __acall__ hands it to a pool thread
finalize_connection(mode, w) == IF mode = "blocking" THEN w ELSE "pool"

\* an entry of connection.queries: who executed the query, and where
Query(w, at) == [by |-> w, at |-> at]

\* connection.queries[initial_queries:]
slice_from(queries, initial_queries) ==
    SubSeq(queries, initial_queries + 1, Len(queries))

\* _log_sql_queries(initial_queries): None without new queries, else the
\* "N SQL QUERIES EXECUTED" text listing them
log_sql_queries(queries, initial_queries) ==
    LET new_queries == slice_from(queries, initial_queries)
    IN  IF new_queries = <<>> THEN PyNone
        ELSE [type |-> "str", count |-> Len(new_queries), queries |-> new_queries]

\* connection.queries_log.clear() of execution_tracker's wrapper
tracker_clear(queries, DEBUG, log_queries) ==
    IF DEBUG /\ log_queries THEN <<>> ELSE queries

\* workers whose request is between its sample and its REQUEST FINISHED entry
\* and whose queries land in connection c
Sampling(c) == {v \in Workers : qs.pc[v] = "handler" /\ connection(qs.mode, v) = c}

\* the cursor wrapper appends the query to the connection's log
execute(w, at) ==
    LET c == connection(qs.mode, w)
    IN  /\ qs.n < MaxQueries
        /\ qs' = [qs EXCEPT !.n = @ + 1,
                            !.queries[c] = Append(@, Query(w, at)),
                            !.since = [v \in Workers |->
                                          IF v \in Sampling(c)
                                          THEN Append(@[v], Query(w, at))
                                          ELSE @[v]]]

\* a layer outside the middleware runs a query before calling it
QueryBefore(w) ==
    /\ qs.log_sql /\ qs.pc[w] = "idle"
    /\ execute(w, "before")
    /\ UNCHANGED <<mainVars, pure, store, sw, mon>>

\* __sync_call__ / __acall__ up to the call of get_response: the sample is
\* written to the instance
QueryCallStarts(w) ==
    /\ qs.log_sql /\ qs.pc[w] = "idle"
    /\ LET c == connection(qs.mode, w)
       IN  qs' = [qs EXCEPT !.pc[w] = "handler",
                            !.initial_queries = Len(qs.queries[c]),
                            !.sampled[w] = Len(qs.queries[c])]
    /\ UNCHANGED <<mainVars, pure, store, sw, mon>>

\* the handler runs a query
QueryInHandler(w) ==
    /\ qs.log_sql /\ qs.pc[w] = "handler"
    /\ execute(w, "handler")
    /\ UNCHANGED <<mainVars, pure, store, sw, mon>>

\* the handler calls a function decorated with execution_tracker: the wrapper
\* clears the log, the function runs k queries, the wrapper counts them
TrackedCall(w, log_queries, k) ==
    /\ qs.log_sql /\ qs.pc[w] = "handler"
    /\ qs.n + k <= MaxQueries
    /\ LET c == connection(qs.mode, w)
           cleared == tracker_clear(qs.queries[c], qs.DEBUG, log_queries)
           ran == [i \in 1..k |-> Query(w, "tracked")]
       IN  qs' = [qs EXCEPT !.n = @ + k,
                            !.queries[c] = cleared \o ran,
                            !.since = [v \in Workers |->
                                          IF v \in Sampling(c) THEN @[v] \o ran
                                          ELSE @[v]],
                            !.num_queries = IF qs.DEBUG /\ log_queries
                                            THEN Len(cleared \o ran) ELSE @]
    /\ UNCHANGED <<mainVars, pure, store, sw, mon>>

\* _finalize_request: the REQUEST FINISHED entry carries the summary of the
\* queries past the instance's sample
QueryFinalize(w) ==
    /\ qs.log_sql /\ qs.pc[w] = "handler"
    /\ LET c == finalize_connection(qs.mode, w)
       IN  qs' = [qs EXCEPT !.pc[w] = "done",
                            !.sql_log[w] = log_sql_queries(qs.queries[c],
                                                           qs.initial_queries),
                            !.seen[w] = Len(qs.queries[c])]
    /\ UNCHANGED <<mainVars, pure, store, sw, mon>>

QueriesInit ==
    /\ Idle
    /\ pure = NoCall
    /\ store = NoStore
    /\ sw = NoStream
    /\ mon = NoMonitor
    /\ \E mode \in Modes :
           qs = [log_sql |-> TRUE, DEBUG |-> TRUE, mode |-> mode, n |-> 0,
                 queries |-> [c \in Threads |-> <<>>],
                 initial_queries |-> MISSING,
                 pc |-> [w \in Workers |-> "idle"],
                 sampled |-> [w \in Workers |-> 0],
                 since |-> [w \in Workers |-> <<>>],
                 seen |-> [w \in Workers |-> 0],
                 sql_log |-> [w \in Workers |-> PyNone],
                 num_queries |-> 0]

QueriesNext ==
    \E w \in Workers :
        \/ QueryBefore(w)
        \/ QueryCallStarts(w)
        \/ QueryInHandler(w)
        \/ \E log_queries \in BOOLEAN, k \in 0..1 : TrackedCall(w, log_queries, k)
        \/ QueryFinalize(w)

SpecQueries == QueriesInit /\ [][QueriesNext]_vars

\* the queries a REQUEST FINISHED entry summarises
Summarised(w) ==
    IF qs.sql_log[w] = PyNone THEN <<>> ELSE qs.sql_log[w].queries

\* C23: the queries summarised in a request's REQUEST FINISHED entry are
\* exactly the queries executed after that request's own sample, whatever
\* the interleaving of the requests the instance serves.
C23_OwnQueriesSummarised ==
    qs.log_sql =>
        \A w \in Workers : qs.pc[w] = "done" => Summarised(w) = qs.since[w]

\* C27: the query log never shrinks between a request's sample and its
\* _finalize_request, tracked calls of the handler included.
C27_QueryLogNeverShrinks ==
    qs.log_sql =>
        \A w \in Workers : qs.pc[w] = "done" => qs.sampled[w] <= qs.seen[w]

\* ==== a request served inside a context that already holds an entry =========

\* what the enclosing code bound
caller_value == Val(0, "caller", 0)

\* code around the middleware call (an enclosing scoped_context, an earlier
\* bind) binds "custom" in the thread's context before the middleware runs;
\* the thread can be switched out in the _get_or_create of that bind
OuterBind(w, p) ==
    /\ CanOuterBind(w)
    /\ p \in CutPoints(w, context_vars, <<"custom">>, switches)
    /\ Binds(w, "outer", ctx, [k \in {"custom"} |-> caller_value], <<"custom">>,
             NoTokens, EmptyMap, context_vars, switches, p)
    /\ lastExit' = NoExit
    /\ UNCHANGED <<pure, store, sw, qs, mon, get_response, cls, async_mode, self_context, req,
                   nextReq, routed, handlerExc, response, result,
                   errLogs, ops, tampered, stream>>

EnclosedInit ==
    /\ Idle
    /\ pure = NoCall
    /\ store = NoStore
    /\ sw = NoStream
    /\ qs = NoQueries
    /\ mon = NoMonitor

EnclosedNext ==
    \E w \in Workers :
        \/ \E p \in 0..1 : OuterBind(w, p)
        \/ SyncCallStart(w)
        \/ \E p \in 0..Len(KeyOrder) : SyncPrepareBind(w, p)
        \/ \E h \in 0..2, p \in 0..Len(KeyOrder) : Resume(w, h, p)
        \/ \E k \in HandlerKeys, p \in 0..1 : HBind(w, k, p)
        \/ \E k \in HandlerKeys : HUnbind(w, k)
        \/ \E a \in Attachments(w) : HLog(w, a)
        \/ \E kind \in {"plain", "streaming"} : HReturn(w, kind)
        \/ \E cut \in BOOLEAN : Finalize(w, cut)
        \/ FinalizeReturn(w)

SpecEnclosed == EnclosedInit /\ [][EnclosedNext]_vars

\* C26: _finalize_request removes only the entries its own _prepare_request
\* bound: an entry under another key that the enclosing code bound before the
\* middleware ran, and that is visible when the handler has returned, is
\* visible with the same value after the request has finished.
C26_OnlyPrepareEntriesRemoved ==
    [][\A w \in Workers :
          (pc[w] \in {"returned", "clearing"} /\ pc'[w] = "done") =>
              \A k \in DOMAIN Visible(w) \ PrepareKeys :
                  Visible(w)[k] = caller_value =>
                      /\ k \in DOMAIN Visible(w)'
                      /\ Visible(w)'[k] = caller_value
      ]_vars

\* ==== MonitorLogSizeMiddleware ==============================================
\* Time is counted in weeks.  The cache is shared by every thread and task.

\* timedelta(weeks=1)
timedelta_weeks == 1

\* a datetime, as now() returns it and as the cache holds it
Datetime(t) == [type |-> "datetime", at |-> t]

\* should_run_task: last_run is None or now() - last_run > timedelta(weeks=1)
should_run_task(last_run, now) ==
    \/ last_run = PyNone
    \/ now - last_run.at > timedelta_weeks

\* run_log_size_check: call_command inside try / except Exception, so the
\* method returns whether the command succeeded or raised
run_log_size_check(outcome) ==
    IF outcome = "raised"
    THEN <<LogEntry("info", "Running 'logs_size_audit' command...", FALSE),
           LogEntry("error", "Error running 'logs_size_audit' command", FALSE)>>
    ELSE <<LogEntry("info", "Running 'logs_size_audit' command...", FALSE)>>

\* time passes
MonitorTick ==
    /\ mon.mode # "none"
    /\ mon.clock < MaxClock
    /\ mon' = [mon EXCEPT !.clock = @ + 1]
    /\ UNCHANGED <<mainVars, pure, store, sw, qs>>

\* In cooperative mode should_run_task, run_log_size_check and cache.set
\* are run by sync_to_async on the one thread kept for such calls, one at a
\* time; in blocking mode each worker thread runs its own.
SyncThreadFree(w) ==
    mon.mode = "cooperative" => \A o \in Workers \ {w} : mon.pc[o] # "check"

\* should_run_task: last_run = cache.get("last_run_logs_size_audit")
MonitorShouldRun(w) ==
    /\ mon.mode # "none"
    /\ mon.pc[w] = "idle"
    /\ mon.calls < MaxCalls
    /\ SyncThreadFree(w)
    /\ mon' = [mon EXCEPT !.calls = @ + 1,
                          !.pc[w] = "check",
                          !.last_run[w] = mon.cache]
    /\ UNCHANGED <<mainVars, pure, store, sw, qs>>

\* should_run_task: last_run is None or now() - last_run > one week, with
\* the last_run read before; and the if of __sync_call__ / __acall__
MonitorCompare(w) ==
    /\ mon.mode # "none"
    /\ mon.pc[w] = "check"
    /\ mon' = [mon EXCEPT !.pc[w] = IF should_run_task(mon.last_run[w], mon.clock)
                                    THEN "run" ELSE "handler",
                          !.last_run[w] = PyNone]
    /\ UNCHANGED <<mainVars, pure, store, sw, qs>>

\* self.run_log_size_check()
MonitorRunCheck(w, outcome) ==
    /\ mon.mode # "none"
    /\ mon.pc[w] = "run"
    /\ SyncThreadFree(w)
    /\ mon' = [mon EXCEPT !.pc[w] = "now",
                          !.audits = Append(@, [at |-> mon.clock, by |-> w,
                                                outcome |-> outcome]),
                          !.logs = run_log_size_check(outcome)]
    /\ UNCHANGED <<mainVars, pure, store, sw, qs>>

\* the argument now() of cache.set is evaluated before the call
MonitorNow(w) ==
    /\ mon.mode # "none"
    /\ mon.pc[w] = "now"
    /\ mon' = [mon EXCEPT !.pc[w] = "set",
                          !.stamp[w] = Datetime(mon.clock)]
    /\ UNCHANGED <<mainVars, pure, store, sw, qs>>

\* cache.set("last_run_logs_size_audit", <the value of now()>, timeout=None)
MonitorCacheSet(w) ==
    /\ mon.mode # "none"
    /\ mon.pc[w] = "set"
    /\ SyncThreadFree(w)
    /\ mon' = [mon EXCEPT !.pc[w] = "handler",
                          !.cache = mon.stamp[w],
                          !.stamp[w] = PyNone,
                          !.stamped = @ + 1]
    /\ UNCHANGED <<mainVars, pure, store, sw, qs>>

\* return self.get_response(request)
MonitorGetResponse(w) ==
    /\ mon.mode # "none"
    /\ mon.pc[w] = "handler"
    /\ mon' = [mon EXCEPT !.pc[w] = "idle"]
    /\ UNCHANGED <<mainVars, pure, store, sw, qs>>

MonitorInit ==
    /\ Idle
    /\ pure = NoCall
    /\ store = NoStore
    /\ sw = NoStream
    /\ qs = NoQueries
    /\ \E mode \in Modes :
           mon = [mode |-> mode, clock |-> 0, cache |-> PyNone, calls |-> 0,
                  pc |-> [w \in Workers |-> "idle"],
                  last_run |-> [w \in Workers |-> PyNone],
                  stamp |-> [w \in Workers |-> PyNone],
                  audits |-> <<>>, stamped |-> 0, logs |-> <<>>]

MonitorNext ==
    \/ MonitorTick
    \/ \E w \in Workers :
           \/ MonitorShouldRun(w)
           \/ MonitorCompare(w)
           \/ \E outcome \in {"returned", "raised"} : MonitorRunCheck(w, outcome)
           \/ MonitorNow(w)
           \/ MonitorCacheSet(w)
           \/ MonitorGetResponse(w)

SpecMonitor == MonitorInit /\ [][MonitorNext]_vars

\* C30: the audit runs at most once per one-week window: every audit run is
\* followed by the recording of the stamp (when no request is inside the
\* audit, as many stamps were recorded as audits ran), and any two audit
\* runs are more than one week apart, for every interleaving of the
\* requests.
C30_AtMostOncePerWeek ==
    mon.mode # "none" =>
        /\ (\A w \in Workers : mon.pc[w] \notin {"run", "now", "set"}) =>
               mon.stamped = Len(mon.audits)
        /\ \A i, j \in DOMAIN mon.audits :
               i < j => mon.audits[j].at - mon.audits[i].at > timedelta_weeks

====
